---- MODULE Spec2Model ----
(***************************************************************************)
(* MessageFlow (message_stream): the streaming coder engine.               *)
(*                                                                         *)
(* One EncoderContext writes a byte stream into a sink; one DecoderContext *)
(* reads a (possibly truncated) copy of that stream.  Python objects live  *)
(* in a heap indexed by identity (id(value)); bytes are numbers 0..255;    *)
(* Python integers are big-endian base-256 digit sequences without leading *)
(* zero (so that to_bytes / from_bytes / bit_length are computed, and      *)
(* values beyond 32 bits are representable).                               *)
(***************************************************************************)
EXTENDS Integers, Sequences, FiniteSets, TLC

\* ------------------------------------------------------------------------
\* Bounds of the model
\* ------------------------------------------------------------------------

\* Largest number of top-level encode calls made on the encoder context.
MaxCalls == 2

\* A decoder's source ends within this many bytes of the start or of the end
\* of what the encoder wrote.
CutWindow == 24

\* Longest source made of SourceBytes that a reader hands to a decoder.
MaxSourceLen == 3

\* Most digits following the leading digit of an integer handed to
\* encode_variable_int.
MaxFill == 8

\* The longest tuple of control codes handed to add_type
MaxCodes == 3

\* Most Schema objects, and most calls on them in a row
MaxSchemas == 3

MaxSchemaCalls == 3

\* ------------------------------------------------------------------------
\* Bytes and integers
\* ------------------------------------------------------------------------

RECURSIVE Digits(_)
\* int -> minimal big-endian base-256 digits (0 is the empty sequence)
Digits(n) == IF n = 0 THEN <<>> ELSE Append(Digits(n \div 256), n % 256)

RECURSIVE Normalise(_)
\* int.from_bytes(b, 'big'): leading zero bytes do not contribute
Normalise(b) == IF b # <<>> /\ b[1] = 0 THEN Normalise(Tail(b)) ELSE b

\* A count too large for any stream of the model (>= 2^31).
Huge == 0 - 1

RECURSIVE DigitsValue(_)
DigitsValue(d) == IF d = <<>> THEN 0
                  ELSE 256 * DigitsValue(SubSeq(d, 1, Len(d) - 1)) + d[Len(d)]

\* The number a digit sequence stands for, Huge when it is 2^31 or more.
ToNat(d) == IF Len(d) < 4 \/ (Len(d) = 4 /\ d[1] < 128) THEN DigitsValue(d) ELSE Huge

\* value.to_bytes(n, 'big') for a value that fits
ToBytes(d, n) == [i \in 1..(n - Len(d)) |-> 0] \o d

\* int((7 + value.bit_length()) / 8)
ByteLength(d) == Len(d)

\* ------------------------------------------------------------------------
\* constants.py
\* ------------------------------------------------------------------------

STRUCT_DEF_CONTROL_CODE == 0
BACK_REF_CONTROL_CODE == 1

\* ------------------------------------------------------------------------
\* VarInt framing (EncoderContext.encode_variable_int)
\* ------------------------------------------------------------------------

\* Variation: each limit itself still fits the narrower width
FitsVarIntInclusive(d, w) ==
    CASE w = 1 -> Len(d) = 0 \/ (Len(d) = 1 /\ d[1] <= 128)
      [] w = 2 -> Len(d) <= 1 \/ (Len(d) = 2 /\ d[1] <= 64)
      [] w = 4 -> Len(d) <= 3 \/ (Len(d) = 4 /\ d[1] <= 32)
      [] w = 8 -> Len(d) <= 7 \/ (Len(d) = 8 /\ d[1] <= 16)

\* val < 0x80, val < 0x4000, val < 0x20000000, val < 0x1000000000000000
FitsVarInt(d, w) ==
    CASE w = 1 -> Len(d) = 0 \/ (Len(d) = 1 /\ d[1] < 128)
      [] w = 2 -> Len(d) <= 1 \/ (Len(d) = 2 /\ d[1] < 64)
      [] w = 4 -> Len(d) <= 3 \/ (Len(d) = 4 /\ d[1] < 32)
      [] w = 8 -> Len(d) <= 7 \/ (Len(d) = 8 /\ d[1] < 16)

\* (val | prefix).to_bytes(w, 'big'): the prefix lands in the first byte
WithPrefix(d, w, prefix) ==
    LET b == ToBytes(d, w) IN [b EXCEPT ![1] = b[1] + prefix]

VarIntWidth(d) ==
    IF FitsVarInt(d, 1) THEN 1
    ELSE IF FitsVarInt(d, 2) THEN 2
    ELSE IF FitsVarInt(d, 4) THEN 4
    ELSE IF FitsVarInt(d, 8) THEN 8
    ELSE 0

\* The bytes encode_variable_int writes for val (<<>> when it raises)
VarIntBytes(d) ==
    CASE VarIntWidth(d) = 1 -> ToBytes(d, 1)
      [] VarIntWidth(d) = 2 -> WithPrefix(d, 2, 128)
      [] VarIntWidth(d) = 4 -> WithPrefix(d, 4, 192)
      [] VarIntWidth(d) = 8 -> WithPrefix(d, 8, 224)
      [] OTHER -> <<>>

\* ------------------------------------------------------------------------
\* UTF-8 (str.encode("utf-8") / bytes.decode("utf-8")); text is a sequence
\* of code points
\* ------------------------------------------------------------------------

Utf8Char(cp) ==
    IF cp < 128 THEN <<cp>>
    ELSE IF cp < 2048 THEN <<192 + (cp \div 64), 128 + (cp % 64)>>
    ELSE IF cp < 65536
         THEN <<224 + (cp \div 4096), 128 + ((cp \div 64) % 64), 128 + (cp % 64)>>
    ELSE <<240 + (cp \div 262144), 128 + ((cp \div 4096) % 64),
           128 + ((cp \div 64) % 64), 128 + (cp % 64)>>

RECURSIVE Utf8Encode(_)
Utf8Encode(cps) == IF cps = <<>> THEN <<>> ELSE Utf8Char(cps[1]) \o Utf8Encode(Tail(cps))

IsCont(b) == b >= 128 /\ b <= 191

\* Number of bytes of the well-formed UTF-8 sequence at the head of b, 0 if
\* the head is not well formed (strict decoding raises UnicodeDecodeError).
Utf8HeadLen(b) ==
    IF b[1] < 128 THEN 1
    ELSE IF b[1] >= 194 /\ b[1] <= 223
         THEN (IF Len(b) >= 2 /\ IsCont(b[2]) THEN 2 ELSE 0)
    ELSE IF b[1] >= 224 /\ b[1] <= 239
         THEN (IF Len(b) >= 3 /\ IsCont(b[2]) /\ IsCont(b[3])
                  /\ (b[1] = 224 => b[2] >= 160) /\ (b[1] = 237 => b[2] <= 159)
               THEN 3 ELSE 0)
    ELSE IF b[1] >= 240 /\ b[1] <= 244
         THEN (IF Len(b) >= 4 /\ IsCont(b[2]) /\ IsCont(b[3]) /\ IsCont(b[4])
                  /\ (b[1] = 240 => b[2] >= 144) /\ (b[1] = 244 => b[2] <= 143)
               THEN 4 ELSE 0)
    ELSE 0

Utf8HeadCp(b, n) ==
    CASE n = 1 -> b[1]
      [] n = 2 -> (b[1] - 192) * 64 + (b[2] - 128)
      [] n = 3 -> (b[1] - 224) * 4096 + (b[2] - 128) * 64 + (b[3] - 128)
      [] n = 4 -> (b[1] - 240) * 262144 + (b[2] - 128) * 4096
                  + (b[3] - 128) * 64 + (b[4] - 128)

RECURSIVE Utf8Decode(_)
\* [ok |-> the bytes are valid UTF-8, cps |-> the decoded text]
Utf8Decode(b) ==
    IF b = <<>> THEN [ok |-> TRUE, cps |-> <<>>]
    ELSE LET n == Utf8HeadLen(b) IN
         IF n = 0 THEN [ok |-> FALSE, cps |-> <<>>]
         ELSE LET rest == Utf8Decode(SubSeq(b, n + 1, Len(b))) IN
              [ok |-> rest.ok, cps |-> <<Utf8HeadCp(b, n)>> \o rest.cps]

\* ------------------------------------------------------------------------
\* Sequence helpers
\* ------------------------------------------------------------------------

Range(f) == {f[i] : i \in DOMAIN f}

SetMax(S) == CHOOSE m \in S : \A x \in S : x <= m

\* Index of the first pair of a sequence of pairs whose key is k, 0 if none
RECURSIVE IndexOfKey(_, _, _)
IndexOfKey(pairs, k, i) ==
    IF i > Len(pairs) THEN 0
    ELSE IF pairs[i][1] = k THEN i
    ELSE IndexOfKey(pairs, k, i + 1)

HasKey(pairs, k) == IndexOfKey(pairs, k, 1) # 0

Lookup(pairs, k) == pairs[IndexOfKey(pairs, k, 1)][2]

\* ------------------------------------------------------------------------
\* Kind codecs: variants lists (type_encoder_decoders.py)
\* A codec is [kind, arg]; variant keys are written as strings
\* ("None", "False", "1", "...", ...).
\* ------------------------------------------------------------------------

Codec(kind, arg) == [kind |-> kind, arg |-> arg]

variants(codec) ==
    CASE codec.kind = "Bool" -> <<"False", "True">>
      [] codec.kind = "Int" -> <<"1", "2", "4", "8", "...">>
      [] codec.kind = "String" -> <<"1", "0", "...">>
      [] codec.kind = "Decimal" -> <<"1", "-1">>
      [] codec.kind = "Datetime" -> <<"iso", "iana">>
      [] OTHER -> <<"None">>

\* ------------------------------------------------------------------------
\* Schema (schema.py).  A schema is the record of its four tables:
\*   encoders           : type -> [codec, variant_map]  (variant_map is the
\*                        insertion-ordered sequence of <<variant, code>>)
\*   decoders           : code -> [codec, variant]
\*   structures_by_type : type -> StructDefinition
\*   structures_by_name : wire name -> StructDefinition
\* ------------------------------------------------------------------------

EmptyFcn == [x \in {} |-> x]

EmptySchema ==
    [encoders |-> EmptyFcn, decoders |-> EmptyFcn,
     structures_by_type |-> EmptyFcn, structures_by_name |-> EmptyFcn]

\* dict(zip(encoder.variants, control_codes))
ZipVariants(vs, codes) ==
    [i \in 1..(IF Len(vs) < Len(codes) THEN Len(vs) ELSE Len(codes)) |-> <<vs[i], codes[i]>>]

\* Variation: the run of codes starts at the largest code, not after it
AddTypeFromLast(s, object_type, encoder) ==
    LET max_control_code ==
            IF DOMAIN s.decoders = {} THEN 9 ELSE SetMax(DOMAIN s.decoders)
        variant_map ==
            [i \in 1..Len(variants(encoder)) |->
                <<variants(encoder)[i], max_control_code + i - 1>>]
    IN  [s EXCEPT
           !.decoders = [c \in DOMAIN s.decoders \cup {vc[2] : vc \in Range(variant_map)} |->
                            IF \E i \in DOMAIN variant_map : variant_map[i][2] = c
                            THEN LET i == CHOOSE i \in DOMAIN variant_map :
                                              variant_map[i][2] = c
                                 IN  [codec |-> encoder, variant |-> variant_map[i][1]]
                            ELSE s.decoders[c]],
           !.encoders = [t \in DOMAIN s.encoders \cup {object_type} |->
                            IF t = object_type
                            THEN [codec |-> encoder, variant_map |-> variant_map]
                            ELSE s.encoders[t]]]

\* Schema.add_type with control_codes=None
add_type(s, object_type, encoder) ==
    LET max_control_code ==
            IF DOMAIN s.decoders = {} THEN 9 ELSE SetMax(DOMAIN s.decoders) + 1
        control_codes ==
            [i \in 1..Len(variants(encoder)) |-> max_control_code + i - 1]
        variant_map == ZipVariants(variants(encoder), control_codes)
    IN  [s EXCEPT
           !.decoders = [c \in DOMAIN s.decoders \cup {vc[2] : vc \in Range(variant_map)} |->
                            IF \E i \in DOMAIN variant_map : variant_map[i][2] = c
                            THEN LET i == CHOOSE i \in DOMAIN variant_map :
                                              variant_map[i][2] = c
                                 IN  [codec |-> encoder, variant |-> variant_map[i][1]]
                            ELSE s.decoders[c]],
           !.encoders = [t \in DOMAIN s.encoders \cup {object_type} |->
                            IF t = object_type
                            THEN [codec |-> encoder, variant_map |-> variant_map]
                            ELSE s.encoders[t]]]

RECURSIVE AddTypes(_, _)
AddTypes(s, regs) ==
    IF regs = <<>> THEN s
    ELSE AddTypes(add_type(s, regs[1][1], regs[1][2]), Tail(regs))

\* The module-level registrations that build default_schema
default_schema ==
    AddTypes(EmptySchema,
      << <<"SkipType", Codec("Sentinel", "SKIP")>>,
         <<"NoneType", Codec("Sentinel", "None")>>,
         <<"ellipsis", Codec("Sentinel", "Ellipsis")>>,
         <<"bool", Codec("Bool", "")>>,
         <<"int", Codec("Int", "")>>,
         <<"bytes", Codec("Bytes", "")>>,
         <<"str", Codec("String", "")>>,
         <<"float", Codec("Float", "")>>,
         <<"Decimal", Codec("Decimal", "")>>,
         <<"datetime", Codec("Datetime", "")>>,
         <<"tuple", Codec("Sequence", "tuple")>>,
         <<"list", Codec("Sequence", "list")>>,
         <<"set", Codec("Sequence", "set")>>,
         <<"dict", Codec("Dict", "dict")>> >>)

\* ------------------------------------------------------------------------
\* Record definitions (abstract.py) and Schema.define_structure
\* ------------------------------------------------------------------------

\* The SKIP sentinel standing in a StructFieldMap for "no attribute"
\* (attribute and field names are code-point sequences).
SkipName == <<0>>

StructFieldMap(encode_source, decode_target, name) ==
    [encode_source |-> encode_source, decode_target |-> decode_target, name |-> name]

StructDefinition(encode_type, decode_type, struct_name, fields) ==
    [encode_type |-> encode_type, decode_type |-> decode_type,
     struct_name |-> struct_name, fields |-> fields]

\* type.__name__ of the record classes of the model
\* (P2 is a second class whose __name__ is also 'P')
ClassName(type) == CASE type = "P" -> <<80>> [] type = "L" -> <<76>> [] type = "P2" -> <<80>>

\* One round of the loop of define_structure for a type that has no
\* definition yet and no explicit name: the name is the class name, a name
\* already taken raises, else both tables receive the definition.
DefineOne(s, new_type, fields) ==
    LET new_name == ClassName(new_type)
        struct_def == StructDefinition(new_type, new_type, new_name,
                          [i \in DOMAIN fields |-> StructFieldMap(fields[i], fields[i], fields[i])])
    IN  IF new_name \in DOMAIN s.structures_by_name THEN s
        ELSE [s EXCEPT
                !.structures_by_type =
                    [t \in DOMAIN s.structures_by_type \cup {new_type} |->
                        IF t = new_type THEN struct_def ELSE s.structures_by_type[t]],
                !.structures_by_name =
                    [n \in DOMAIN s.structures_by_name \cup {new_name} |->
                        IF n = new_name THEN struct_def ELSE s.structures_by_name[n]]]

RECURSIVE define_structure(_, _)
\* results: the <<type, field names>> pairs found by _evaluate_struct_schema
define_structure(s, results) ==
    IF results = <<>> THEN s
    ELSE define_structure(DefineOne(s, results[1][1], results[1][2]), Tail(results))

\* The schema of the model: Schema() (a fork of default_schema) with
\*   @dataclass class P: x, y       @dataclass class L: a, b  (a: P)
TestSchema ==
    define_structure(default_schema,
                     << <<"L", << <<97>>, <<98>> >> >>,
                        <<"P", << <<120>>, <<121>> >> >> >>)

\* A class object standing where a name is expected (StructDefinition[0] is
\* encode_type): it is hashable and equal to no str
ClassObject(type) == <<0 - 1>> \o ClassName(type) \o (IF type = "P2" THEN <<50>> ELSE <<>>)

IsClassObject(name) == name # <<>> /\ name[1] < 0

\* The name argument of define_structure: None, a str, or a callable given
\* as the <<class, name>> pairs it answers (None for every other class)
NoName == [kind |-> "none", value |-> <<>>]

StrName(value) == [kind |-> "str", value |-> value]

FnName(value) == [kind |-> "fn", value |-> value]

\* dataclasses.fields(eval_struct), by name
FieldNames(type) ==
    CASE type = "P" -> << <<120>>, <<121>> >>
      [] type = "L" -> << <<97>>, <<98>> >>
      [] type = "P2" -> << <<122>> >>

\* Schema._evaluate_struct_schema: the record classes reachable from
\* structure in the order they are met (field a of L is a P; the other
\* fields have registered kinds)
evaluate_struct_schema(structure) ==
    IF structure = "L" THEN << "L", "P" >> ELSE << structure >>

\* eval_name of define_structure
eval_name(name, type_def, new_structures_by_type, type_class) ==
    IF name.kind = "fn" /\ HasKey(name.value, ClassObject(type_class))
    THEN Lookup(name.value, ClassObject(type_class))
    ELSE IF type_class = type_def /\ name.kind = "str" THEN name.value
    ELSE IF type_class \in DOMAIN new_structures_by_type THEN ClassObject(type_class)
    ELSE ClassName(type_class)

\* The two tables after new_structures_by_type[new_type] = struct_def and
\* new_structures_by_name[new_name] = struct_def
DefinitionStored(st, new_type, new_name) ==
    LET struct_def == StructDefinition(new_type, new_type, new_name,
                          [i \in DOMAIN FieldNames(new_type) |->
                              StructFieldMap(FieldNames(new_type)[i], FieldNames(new_type)[i],
                                             FieldNames(new_type)[i])])
    IN  [st EXCEPT
           !.structures_by_type =
               [t \in DOMAIN st.structures_by_type \cup {new_type} |->
                   IF t = new_type THEN struct_def ELSE st.structures_by_type[t]],
           !.structures_by_name =
               [n \in DOMAIN st.structures_by_name \cup {new_name} |->
                   IF n = new_name THEN struct_def ELSE st.structures_by_name[n]]]

\* raise ValueError(f"... {self._structures_by_name[name][0]}"): the message
\* looks the name argument up in the schema's own table
DuplicateName(st, s, name) ==
    IF name.kind = "str" /\ name.value \in DOMAIN s.structures_by_name
    THEN [st EXCEPT !.raised = "ValueError"]
    ELSE [st EXCEPT !.raised = "KeyError"]

\* One round of the loop of define_structure, from the duplicate test on
NameChecked(st, s, name, new_type, new_name) ==
    IF st.raised # "" THEN st
    ELSE IF new_name \in DOMAIN st.structures_by_name THEN DuplicateName(st, s, name)
    ELSE DefinitionStored(st, new_type, new_name)

\* Variation: the entry removed is the one under the name the type has
OldNameRemovedByName(st, new_type, new_name) ==
    IF new_type \in DOMAIN st.structures_by_type
         /\ new_name # st.structures_by_type[new_type].struct_name
    THEN [st EXCEPT !.structures_by_name =
             [n \in DOMAIN @ \ {st.structures_by_type[new_type].struct_name} |-> @[n]]]
    ELSE st

\* if new_type in new_structures_by_type and new_name != ...[new_type][0]:
\*     del new_structures_by_name[new_structures_by_type[new_type][0]]
OldNameRemoved(st, new_type, new_name) ==
    IF new_type \in DOMAIN st.structures_by_type /\ new_name # ClassObject(new_type)
    THEN IF ClassObject(new_type) \in DOMAIN st.structures_by_name
         THEN [st EXCEPT !.structures_by_name =
                  [n \in DOMAIN @ \ {ClassObject(new_type)} |-> @[n]]]
         ELSE [st EXCEPT !.raised = "KeyError"]
    ELSE st

DefineRound(st, s, type_def, name, new_type) ==
    IF st.raised # "" THEN st
    ELSE NameChecked(OldNameRemoved(st, new_type,
                                    eval_name(name, type_def, st.structures_by_type, new_type)),
                     s, name, new_type,
                     eval_name(name, type_def, st.structures_by_type, new_type))

RECURSIVE DefineRounds(_, _, _, _, _)
DefineRounds(st, s, type_def, name, results) ==
    IF results = <<>> THEN st
    ELSE DefineRounds(DefineRound(st, s, type_def, name, results[1]),
                      s, type_def, name, Tail(results))

\* Schema.define_structure(_type_def, name): the schema afterwards and the
\* exception raised ("" for none); the tables are replaced only at the end
define_structure_named(s, type_def, name) ==
    LET st == DefineRounds([structures_by_type |-> s.structures_by_type,
                            structures_by_name |-> s.structures_by_name,
                            raised |-> ""],
                           s, type_def, name, evaluate_struct_schema(type_def))
    IN  IF st.raised # ""
        THEN [raised |-> st.raised, schema |-> s]
        ELSE [raised |-> "",
              schema |-> [s EXCEPT !.structures_by_type = st.structures_by_type,
                                   !.structures_by_name = st.structures_by_name]]

\* ------------------------------------------------------------------------
\* The caller's objects.  Heap[id] is the object with identity id:
\*   sentinels and bool : val unused            int   : base-256 digits
\*   str  : code points                          bytes : bytes
\*   tuple, list : identities of the items       dict  : <<key id, value id>>
\*   record (class P, L) : <<attribute name, identity>> of the attributes set
\*   object : an instance of a class no schema knows
\* The record classes are dataclasses whose fields have default factories:
\* an attribute can be deleted from an instance (getattr then finds nothing)
\* and the constructor takes any subset of the fields by keyword.
\* The last two entries are two of the objects after the caller changed
\* them in place: another content, the same identity (IdOf).
\* ------------------------------------------------------------------------

Obj(type, val) == [type |-> type, val |-> val]

\* The length of the long byte string: its length, and the offset of a
\* back reference to it, need a varint of two bytes
LongLen == 130

Heap ==
    << Obj("NoneType", <<>>),                          \* 1  None
       Obj("ellipsis", <<>>),                          \* 2  ...
       Obj("bool", TRUE),                              \* 3  True
       Obj("bool", FALSE),                             \* 4  False
       Obj("SkipType", <<>>),                          \* 5  SKIP
       Obj("int", <<>>),                               \* 6  0
       Obj("int", <<127>>),                            \* 7  127
       Obj("int", <<1, 44>>),                          \* 8  300
       Obj("int", <<1, 0, 0, 0, 0, 0, 0, 0, 0>>),      \* 9  2**64
       Obj("str", <<>>),                               \* 10 ''
       Obj("str", <<163>>),                            \* 11 u'\xa3'
       Obj("str", <<104, 105>>),                       \* 12 'hi'
       Obj("bytes", <<97, 255>>),                      \* 13 b'a\xff'
       Obj("tuple", <<12>>),                           \* 14 ('hi',)
       Obj("tuple", <<12, 12>>),                       \* 15 ('hi', 'hi')
       Obj("list", <<9, 3, 9>>),                       \* 16 [2**64, True, 2**64]
       Obj("dict", << <<11, 16>>, <<12, 1>> >>),       \* 17 {u'\xa3': [...], 'hi': None}
       Obj("P", << <<(<<120>>), 7>>, <<(<<121>>), 12>> >>),   \* 18 P(x=127, y='hi')
       Obj("P", << <<(<<120>>), 8>> >>),               \* 19 P(x=300), y deleted
       Obj("L", << <<(<<97>>), 18>>, <<(<<98>>), 17>> >>),    \* 20 L(a=P 18, b={..})
       Obj("list", <<19, 18, 18>>),                    \* 21 [P 19, P 18, P 18]
       Obj("L", << <<(<<97>>), 18>>, <<(<<98>>), 15>> >>),    \* 22 L(a=P 18, b=(..))
       Obj("object", <<>>),                            \* 23 object()
       Obj("list", <<12, 23>>),                        \* 24 ['hi', object()]
       Obj("bytes", [i \in 1..LongLen |-> 0]),         \* 25 bytes(130)
       Obj("list", <<9, 3, 9, 12>>),                   \* 26 the list 16 after append('hi')
       Obj("P", << <<(<<120>>), 8>>, <<(<<121>>), 12>> >>) >>  \* 27 P 18 after p.x = 300

Ids == DOMAIN Heap

\* id(value): an object that was changed in place is the object it was
IdOf(o) == CASE o = 26 -> 16 [] o = 27 -> 18 [] OTHER -> o

\* id(None) and id(SKIP): the one object of each of the two types
NoneId == CHOOSE o \in Ids : Heap[o].type = "NoneType"
SkipId == CHOOSE o \in Ids : Heap[o].type = "SkipType"

\* The objects handed to the encoder at top level
Roots == {2, 4, 6, 8, 10, 11, 12, 13, 14, 15, 16, 17, 18, 19, 20, 21, 22, 24, 25}

\* The object a variant key is when it is encoded in a declaration
VariantObject(variant) == CASE variant = "None" -> NoneId

\* getattr(value, name, SKIP)
getattr(o, name) ==
    IF HasKey(Heap[o].val, name) THEN Lookup(Heap[o].val, name) ELSE SkipId

\* ------------------------------------------------------------------------
\* Kind codecs, encoder side (type_encoder_decoders.py)
\* ------------------------------------------------------------------------

VariantSpec(encode, variant_key, allow_backref) ==
    [encode |-> encode, variant_key |-> variant_key, allow_backref |-> allow_backref]

\* IntEncoderDecoder.select_variant
IntSelectVariant(value) ==
    LET length == ByteLength(value) IN
    IF length = 1 THEN VariantSpec("_encode_1_byte", "1", FALSE)
    ELSE IF length = 2 THEN VariantSpec("_encode_2_byte", "2", FALSE)
    ELSE IF length <= 4 THEN VariantSpec("_encode_4_byte", "4", FALSE)
    ELSE IF length <= 8 THEN VariantSpec("_encode_8_byte", "8", FALSE)
    ELSE VariantSpec("_encode_big_byte", "...", TRUE)

\* StringEncoderDecoder.select_variant
StringSelectVariant(value) ==
    IF Len(value) = 0 THEN VariantSpec("_encode_fixed", "0", FALSE)
    ELSE IF Len(value) = 1 THEN VariantSpec("_encode_fixed", "1", FALSE)
    ELSE VariantSpec("_encode_str", "...", TRUE)

\* SingleVariantEncoder.select_variant (_supports_back_ref = True)
SingleSelectVariant(codec) ==
    VariantSpec(codec.kind, "None", TRUE)

select_variant(codec, o) ==
    CASE codec.kind = "Sentinel" -> VariantSpec("pass", "None", FALSE)
      [] codec.kind = "Bool" ->
            VariantSpec("pass", IF Heap[o].val THEN "True" ELSE "False", FALSE)
      [] codec.kind = "Int" -> IntSelectVariant(Heap[o].val)
      [] codec.kind = "String" -> StringSelectVariant(Heap[o].val)
      [] OTHER -> SingleSelectVariant(codec)

\* ------------------------------------------------------------------------
\* EncoderContext (encoder_decoder_context.py).  The context is the record
\*   target           : the bytes in the sink (tell() is their number)
\*   encoders         : type -> [codec, variant_map]
\*   structures       : type -> StructDefinition   (_structures_in_schema)
\*   max_control_code, back_references (id -> position)
\*   raised           : "" or the exception the running call has raised
\*   log              : what was written where, in order (history):
\*        "decl"  a declaration of record type `type` starts at pos
\*        "data"  the data form of object id starts at pos, control code arg
\*        "done"  the data form of id at pos is complete and remembered,
\*                the sink then holding arg bytes
\*        "ref"   a back reference to id starts at pos, its offset arg
\*        "field" the record id writes its next field at pos, the object arg
\* Every operation is skipped once an exception is in flight.
\* ------------------------------------------------------------------------

Event(ev, id, type, pos, arg) ==
    [ev |-> ev, id |-> id, type |-> type, pos |-> pos, arg |-> arg]

Logged(e, ev, id, type, pos, arg) ==
    [e EXCEPT !.log = Append(@, Event(ev, id, type, pos, arg))]

NewEncoderContext(encoders, structures) ==
    [target |-> <<>>,
     encoders |-> encoders,
     structures |-> structures,
     max_control_code |->
        SetMax({vc[2] : vc \in UNION {Range(encoders[t].variant_map) : t \in DOMAIN encoders}}),
     back_references |-> EmptyFcn,
     raised |-> "",
     log |-> <<>>]

tell(e) == Len(e.target)

write(e, value) ==
    IF e.raised # "" THEN e ELSE [e EXCEPT !.target = @ \o value]

\* Variation: the widest prefix is written before the range is checked
EncodeVarIntPrefixFirst(e, val) ==
    IF e.raised # "" THEN e
    ELSE IF VarIntWidth(val) = 0
         THEN [e EXCEPT !.raised = "ValueError", !.target = @ \o <<224>>]
    ELSE [e EXCEPT !.target = @ \o VarIntBytes(val)]

encode_variable_int(e, val) ==
    IF e.raised # "" THEN e
    ELSE IF VarIntWidth(val) = 0 THEN [e EXCEPT !.raised = "ValueError"]
    ELSE write(e, VarIntBytes(val))

\* (a class object in the place of the str has no attribute 'encode')
encode_string(e, value) ==
    IF IsClassObject(value)
    THEN IF e.raised # "" THEN e ELSE [e EXCEPT !.raised = "AttributeError"]
    ELSE LET v == Utf8Encode(value) IN
         write(encode_variable_int(e, Digits(Len(v))), v)

\* Variation: the offset measured from one byte further on
BackRefOffsetFromNext(e, o) == tell(e) + 1 - e.back_references[IdOf(o)]

\* offset = self._target.tell() - self._back_references[id(value)]
BackRefOffset(e, o) == tell(e) - e.back_references[IdOf(o)]

encode_back_reference(e, o) ==
    LET offset == BackRefOffset(e, o) IN
    encode_variable_int(
        encode_variable_int(
            Logged(e, "ref", o, Heap[o].type, tell(e), offset),
            Digits(BACK_REF_CONTROL_CODE)),
        Digits(offset))

\* Variation: the position remembered is where the data form ends
RememberEnd(e, o, position) ==
    Logged([e EXCEPT !.back_references =
                [i \in DOMAIN e.back_references \cup {IdOf(o)} |->
                    IF i = IdOf(o) THEN tell(e) ELSE e.back_references[i]]],
           "done", o, Heap[o].type, tell(e), tell(e))

\* if allow_backref: self._back_references[id(value)] = position
RememberPosition(e, o, position) ==
    Logged([e EXCEPT !.back_references =
                [i \in DOMAIN e.back_references \cup {IdOf(o)} |->
                    IF i = IdOf(o) THEN position ELSE e.back_references[i]]],
           "done", o, Heap[o].type, position, tell(e))

\* Variation: the counter of the context is not moved on
AddEncoderNotCounting(e, obj_type, encoder) ==
    [e EXCEPT
       !.encoders = [t \in DOMAIN e.encoders \cup {obj_type} |->
                        IF t = obj_type
                        THEN [codec |-> encoder,
                              variant_map |-> [i \in DOMAIN variants(encoder) |->
                                                  <<variants(encoder)[i], e.max_control_code + i>>]]
                        ELSE e.encoders[t]]]

add_encoder(e, obj_type, encoder) ==
    LET vs == variants(encoder)
        variant_map == [i \in DOMAIN vs |-> <<vs[i], e.max_control_code + i>>]
    IN  [e EXCEPT
           !.max_control_code = @ + Len(vs),
           !.encoders = [t \in DOMAIN e.encoders \cup {obj_type} |->
                            IF t = obj_type
                            THEN [codec |-> encoder, variant_map |-> variant_map]
                            ELSE e.encoders[t]]]

RECURSIVE encode_object(_, _, _)
RECURSIVE EncodeItems(_, _, _)
RECURSIVE EncodePairs(_, _, _)
RECURSIVE EncodeFields(_, _, _, _)
RECURSIVE DeclareVariants(_, _, _)
RECURSIVE DeclareFields(_, _, _)

\* for item in value: target.encode_object(item)
EncodeItems(e, items, i) ==
    IF i > Len(items) \/ e.raised # "" THEN e
    ELSE EncodeItems(encode_object(e, items[i], FALSE), items, i + 1)

\* for k, v in value.items(): encode_object(k); encode_object(v)
EncodePairs(e, items, i) ==
    IF i > Len(items) \/ e.raised # "" THEN e
    ELSE EncodePairs(encode_object(encode_object(e, items[i][1], FALSE), items[i][2], FALSE),
                     items, i + 1)

\* StructEncoderDecoder._encode
EncodeFields(e, o, fields, i) ==
    IF i > Len(fields) \/ e.raised # "" THEN e
    ELSE EncodeFields(
            encode_object(Logged(e, "field", o, Heap[o].type, tell(e),
                                 getattr(o, fields[i].encode_source)),
                          getattr(o, fields[i].encode_source), FALSE),
            o, fields, i + 1)

\* The writer select_variant returned, applied to the value
encode_method(e, codec, method, o) ==
    LET value == Heap[o].val IN
    CASE method = "pass" -> e
      [] method = "_encode_1_byte" -> write(e, ToBytes(value, 1))
      [] method = "_encode_2_byte" -> write(e, ToBytes(value, 2))
      [] method = "_encode_4_byte" -> write(e, ToBytes(value, 4))
      [] method = "_encode_8_byte" -> write(e, ToBytes(value, 8))
      [] method = "_encode_big_byte" ->
            write(encode_variable_int(e, Digits(ByteLength(value))),
                  ToBytes(value, ByteLength(value)))
      [] method = "Bytes" -> write(encode_variable_int(e, Digits(Len(value))), value)
      [] method = "_encode_fixed" -> write(e, Utf8Encode(value))
      [] method = "_encode_str" -> encode_string(e, value)
      [] method = "Sequence" ->
            EncodeItems(encode_variable_int(e, Digits(Len(value))), value, 1)
      [] method = "Dict" ->
            EncodePairs(encode_variable_int(e, Digits(Len(value))), value, 1)
      [] method = "Struct" -> EncodeFields(e, o, codec.arg.fields, 1)

\* for variant, control_code in ...items(): varint code, encode_object(variant, True)
DeclareVariants(e, variant_map, i) ==
    IF i > Len(variant_map) \/ e.raised # "" THEN e
    ELSE DeclareVariants(
            encode_object(encode_variable_int(e, Digits(variant_map[i][2])),
                          VariantObject(variant_map[i][1]), TRUE),
            variant_map, i + 1)

\* for field in struct_def.fields: self.encode_string(field.name)
DeclareFields(e, fields, i) ==
    IF i > Len(fields) \/ e.raised # "" THEN e
    ELSE DeclareFields(encode_string(e, fields[i].name), fields, i + 1)

\* Variation: the structure gets its encoder but no declaration is written
DeclareSilently(e, struct_type) ==
    add_encoder(e, struct_type, Codec("Struct", e.structures[struct_type]))

declare_structure(e, struct_type) ==
    LET struct_def == e.structures[struct_type]
        e1 == add_encoder(e, struct_type, Codec("Struct", struct_def))
        e2 == encode_variable_int(Logged(e1, "decl", 0, struct_type, tell(e1), 0),
                                  Digits(STRUCT_DEF_CONTROL_CODE))
        e3 == encode_string(e2, struct_def.struct_name)
        e4 == encode_variable_int(e3, Digits(Len(e3.encoders[struct_type].variant_map)))
        e5 == DeclareVariants(e4, e4.encoders[struct_type].variant_map, 1)
        e6 == encode_variable_int(e5, Digits(Len(struct_def.fields)))
    IN  DeclareFields(e6, struct_def.fields, 1)

\* encode_object from select_variant on (the type has an encoder)
EncodeValue(e, o) ==
    LET entry == e.encoders[Heap[o].type]
        spec == select_variant(entry.codec, o)
        position == tell(e)
    IN  IF e.raised # "" THEN e
        ELSE IF spec.allow_backref /\ IdOf(o) \in DOMAIN e.back_references
        THEN encode_back_reference(e, o)
        ELSE LET control_code == Lookup(entry.variant_map, spec.variant_key)
                 e1 == encode_variable_int(
                          Logged(e, "data", o, Heap[o].type, position, control_code),
                          Digits(control_code))
                 e2 == encode_method(e1, entry.codec, spec.encode, o)
             IN  IF e2.raised = "" /\ spec.allow_backref
                 THEN RememberPosition(e2, o, position)
                 ELSE e2

\* Variation: simple_form does not keep a record from being declared
EncodeObjectDeclaring(e, o, simple_form) ==
    IF e.raised # "" THEN e
    ELSE IF Heap[o].type \in DOMAIN e.encoders THEN EncodeValue(e, o)
    ELSE IF Heap[o].type \notin DOMAIN e.structures
         THEN [e EXCEPT !.raised = "ValueError"]
    ELSE EncodeValue(declare_structure(e, Heap[o].type), o)

encode_object(e, o, simple_form) ==
    IF e.raised # "" THEN e
    ELSE IF Heap[o].type \in DOMAIN e.encoders THEN EncodeValue(e, o)
    ELSE IF simple_form \/ Heap[o].type \notin DOMAIN e.structures
         THEN [e EXCEPT !.raised = "ValueError"]
    ELSE EncodeValue(declare_structure(e, Heap[o].type), o)

\* ------------------------------------------------------------------------
\* Decoded objects: [type, val, oid].  val holds the decoded children
\* themselves (dict and record: <<key, value>> pairs); oid tells objects
\* apart: an object built by a codec's decode gets 1 + the position of its
\* control code, the shared singletons (sentinels, booleans) get 0.
\* ------------------------------------------------------------------------

DVal(type, val, oid) == [type |-> type, val |-> val, oid |-> oid]

IsSkip(v) == v.type = "SkipType"

IntOf(v) == IF v.type = "bool" THEN (IF v.val THEN <<1>> ELSE <<>>) ELSE v.val

RECURSIVE PyEq(_, _)
\* a == b for decoded objects
PyEq(a, b) ==
    IF a.type \in {"bool", "int"} /\ b.type \in {"bool", "int"} THEN IntOf(a) = IntOf(b)
    ELSE IF a.type # b.type THEN FALSE
    ELSE IF a.type \in {"NoneType", "ellipsis", "SkipType"} THEN TRUE
    ELSE IF a.type \in {"str", "bytes"} THEN a.val = b.val
    ELSE IF a.type \in {"tuple", "list"}
         THEN Len(a.val) = Len(b.val)
              /\ \A i \in DOMAIN a.val : PyEq(a.val[i], b.val[i])
    ELSE IF a.type = "dict"
         THEN Len(a.val) = Len(b.val)
              /\ \A i \in DOMAIN a.val : \E j \in DOMAIN b.val :
                    PyEq(a.val[i][1], b.val[j][1]) /\ PyEq(a.val[i][2], b.val[j][2])
    ELSE Len(a.val) = Len(b.val)
         /\ \A i \in DOMAIN a.val : \E j \in DOMAIN b.val :
               a.val[i][1] = b.val[j][1] /\ PyEq(a.val[i][2], b.val[j][2])

RECURSIVE Hashable(_)
Hashable(v) ==
    IF v.type = "tuple" THEN \A i \in DOMAIN v.val : Hashable(v.val[i])
    ELSE v.type \in {"NoneType", "ellipsis", "SkipType", "bool", "int", "str", "bytes"}

\* d[k] = v on an insertion-ordered dict held as <<key, value>> pairs
DictSet(pairs, k, v) ==
    IF \E i \in DOMAIN pairs : PyEq(pairs[i][1], k)
    THEN [i \in DOMAIN pairs |-> IF PyEq(pairs[i][1], k) THEN <<pairs[i][1], v>> ELSE pairs[i]]
    ELSE Append(pairs, <<k, v>>)

\* values[name] = v on the keyword arguments of a record's constructor
KwSet(pairs, name, v) ==
    IF \E i \in DOMAIN pairs : pairs[i][1] = name
    THEN [i \in DOMAIN pairs |-> IF pairs[i][1] = name THEN <<name, v>> ELSE pairs[i]]
    ELSE Append(pairs, <<name, v>>)

\* ------------------------------------------------------------------------
\* DecoderContext (encoder_decoder_context.py).  The context is the record
\*   source, pos      : the bytes of the source and tell()
\*   decoders         : code -> [codec, variant]
\*   structures       : wire name -> StructDefinition (_structures_in_schema)
\*   back_references  : position -> decoded object
\*   raised           : "" or the exception in flight
\*   ret              : what the last operation returned
\*   log              : what was read where, in order (history):
\*        "code" the control code arg was read at pos; known are the codes
\*               bound at that moment, top is type_def_okay
\*        "ref"  a back reference at pos was read, its offset arg
\*        "done" the value whose control code is at pos is decoded and
\*               remembered
\*        "decl" a declaration was read; known are the codes it binds
\* ------------------------------------------------------------------------

NewDecoderContext(decoders, structures, source) ==
    [source |-> source, pos |-> 0, decoders |-> decoders, structures |-> structures,
     back_references |-> EmptyFcn, raised |-> "", ret |-> <<>>, log |-> <<>>]

DEvent(ev, pos, arg, known, top) ==
    [ev |-> ev, pos |-> pos, arg |-> arg, known |-> known, top |-> top]

Noted(d, ev, pos, arg, known, top) ==
    IF d.raised # "" THEN d
    ELSE [d EXCEPT !.log = Append(@, DEvent(ev, pos, arg, known, top))]

Raise(d, ex) == [d EXCEPT !.raised = ex, !.ret = <<>>]

Return(d, v) == [d EXCEPT !.ret = v]

\* Variation: a short read ends the iteration instead of raising UnexpectedEof
ReadEndsQuietly(d, byte_count) ==
    IF d.raised # "" THEN d
    ELSE IF byte_count = Huge \/ d.pos + byte_count > Len(d.source)
    THEN Raise([d EXCEPT !.pos = Len(d.source)], "StopIteration")
    ELSE [d EXCEPT !.ret = SubSeq(d.source, d.pos + 1, d.pos + byte_count),
                   !.pos = d.pos + byte_count]

\* Variation: a short read leaves the position behind the end of the source
ReadPastEnd(d, byte_count) ==
    LET left == Len(d.source) - d.pos IN
    IF d.raised # "" THEN d
    ELSE IF byte_count = Huge \/ byte_count > left
         THEN Raise([d EXCEPT !.pos = Len(d.source) + 1], "UnexpectedEof")
    ELSE [d EXCEPT !.pos = @ + byte_count,
                   !.ret = SubSeq(d.source, d.pos + 1, d.pos + byte_count)]

\* DecoderContext.read; the source hands out what it has left
read(d, byte_count) ==
    LET left == Len(d.source) - d.pos IN
    IF d.raised # "" THEN d
    ELSE IF byte_count = Huge \/ byte_count > left
         THEN Raise([d EXCEPT !.pos = Len(d.source)], "UnexpectedEof")
    ELSE [d EXCEPT !.pos = @ + byte_count,
                   !.ret = SubSeq(d.source, d.pos + 1, d.pos + byte_count)]

\* Variation: a first byte 1111xxxx taken for the first of eight bytes
VarIntRestWide(first_byte) ==
    IF first_byte < 128 THEN [more |-> 0, prefix |-> 0]
    ELSE IF first_byte < 192 THEN [more |-> 1, prefix |-> 128]
    ELSE IF first_byte < 224 THEN [more |-> 3, prefix |-> 192]
    ELSE IF first_byte < 240 THEN [more |-> 7, prefix |-> 224]
    ELSE [more |-> 7, prefix |-> 240]

\* The bytes following the first byte of a varint, and the mask of its prefix
VarIntRest(first_byte) ==
    IF first_byte < 128 THEN [more |-> 0, prefix |-> 0]
    ELSE IF first_byte < 192 THEN [more |-> 1, prefix |-> 128]
    ELSE IF first_byte < 224 THEN [more |-> 3, prefix |-> 192]
    ELSE IF first_byte < 240 THEN [more |-> 7, prefix |-> 224]
    ELSE [more |-> Huge, prefix |-> 0]

\* An operation of the context runs only while no exception is in flight
\* (x is what the operation does; it is evaluated only then).
IfOk(d, x) == IF d.raised # "" THEN d ELSE x

\* Variation: the prefix bits are left in the value
VarIntTailUnmasked(d, first_byte) ==
    IF d.raised # "" THEN d ELSE Return(d, Normalise(<<first_byte>> \o d.ret))

\* decode_variable_int, after the remaining bytes were read
VarIntTail(d, first_byte) ==
    IfOk(d, Return(d, Normalise(<<first_byte - VarIntRest(first_byte).prefix>> \o d.ret)))

\* decode_variable_int, after the first byte was read
VarIntFirst(d) ==
    IfOk(d, IF VarIntRest(d.ret[1]).more = Huge THEN Raise(d, "ParseError")
            ELSE VarIntTail(read(d, VarIntRest(d.ret[1]).more), d.ret[1]))

\* Returns the integer as digits
decode_variable_int(d) == VarIntFirst(read(d, 1))

\* read(length) of the length just decoded
ReadCounted(d) == IfOk(d, read(d, ToNat(d.ret)))

\* value.decode("utf-8") of the bytes just read
DecodeText(d) ==
    IfOk(d, IF Utf8Decode(d.ret).ok THEN Return(d, Utf8Decode(d.ret).cps)
            ELSE Raise(d, "UnicodeDecodeError"))

decode_string(d) == DecodeText(ReadCounted(decode_variable_int(d)))

\* Variation: the offset is counted from behind the control code
BackRefTargetBehindCode(current_position, offset) ==
    IF offset = Huge THEN Huge ELSE current_position + 1 - offset

\* return self._back_references[current_position - offset]
BackRefTarget(current_position, offset) ==
    IF offset = Huge THEN Huge ELSE current_position - offset

\* Variation: a reference to nothing yields None
ResolveBackRefLenient(d, current_position) ==
    IfOk(d, IF BackRefTarget(current_position, ToNat(d.ret)) \in DOMAIN d.back_references
            THEN Return(d, d.back_references[BackRefTarget(current_position, ToNat(d.ret))])
            ELSE Return(d, DVal("NoneType", <<>>, 0)))

\* _decode_back_reference, after the offset was read
ResolveBackRef(d, current_position) ==
    IfOk(d, IF BackRefTarget(current_position, ToNat(d.ret)) \in DOMAIN d.back_references
            THEN Return(d, d.back_references[BackRefTarget(current_position, ToNat(d.ret))])
            ELSE Raise(d, "ParseError"))

\* offset = self.decode_variable_int()
OffsetRead(d, current_position) ==
    Noted(d, "ref", current_position, ToNat(d.ret), {}, TRUE)

decode_back_reference(d, current_position) ==
    ResolveBackRef(OffsetRead(decode_variable_int(d), current_position), current_position)

\* for control_code, variant in variants: self._decoders[control_code] = ...
\* (a later pair for the same code replaces an earlier one)
add_decoder(d, decoder, vs) ==
    [d EXCEPT !.decoders =
        [c \in DOMAIN d.decoders \cup {vs[i][1] : i \in DOMAIN vs} |->
            IF \E i \in DOMAIN vs : vs[i][1] = c
            THEN [codec |-> decoder,
                  variant |-> vs[SetMax({j \in DOMAIN vs : vs[j][1] = c})][2]]
            ELSE d.decoders[c]]]

RECURSIVE decode_object(_, _, _)
RECURSIVE DecodeItems(_, _, _)
RECURSIVE DecodePairs(_, _, _)
RECURSIVE DecodeFields(_, _, _, _)
RECURSIVE ReadVariants(_, _, _)
RECURSIVE ReadFields(_, _, _)

Less(count) == IF count = Huge THEN Huge ELSE count - 1

\* One more item was decoded
ItemDecoded(d, count, acc) == IfOk(d, DecodeItems(d, Less(count), Append(acc, d.ret)))

\* source.decode_object() for _ in range(item_count); returns the items
DecodeItems(d, count, acc) ==
    IfOk(d, IF count = 0 THEN Return(d, acc)
            ELSE ItemDecoded(decode_object(d, FALSE, TRUE), count, acc))

\* The value of a pair was decoded: the dict takes the pair
PairDecoded(d, key, count, acc) ==
    IfOk(d, IF ~Hashable(key) THEN Raise(d, "TypeError")
            ELSE DecodePairs(d, Less(count), DictSet(acc, key, d.ret)))

\* The key of a pair was decoded
KeyDecoded(d, count, acc) ==
    IfOk(d, PairDecoded(decode_object(d, FALSE, TRUE), d.ret, count, acc))

\* dict((decode_object(), decode_object()) for _ in range(item_count))
DecodePairs(d, count, acc) ==
    IfOk(d, IF count = 0 THEN Return(d, acc)
            ELSE KeyDecoded(decode_object(d, FALSE, TRUE), count, acc))

\* Variation: every field read becomes a keyword argument
KeepEveryField(values, field, v) == KwSet(values, field.decode_target, v)

\* if v is not SKIP and field.decode_target is not SKIP: values[target] = v
KeepField(values, field, v) ==
    IF ~IsSkip(v) /\ field.decode_target # SkipName
    THEN KwSet(values, field.decode_target, v)
    ELSE values

FieldDecoded(d, fields, i, values) ==
    IfOk(d, DecodeFields(d, fields, i + 1, KeepField(values, fields[i], d.ret)))

\* StructEncoderDecoder.decode, the loop; returns the keyword arguments
DecodeFields(d, fields, i, values) ==
    IfOk(d, IF i > Len(fields) THEN Return(d, values)
            ELSE FieldDecoded(decode_object(d, FALSE, TRUE), fields, i, values))

\* self._struct_def.decode_type(**values): dict builds a mapping keyed by the
\* names; a record class takes any of its fields by keyword
Construct(decode_type, values, oid) ==
    IF decode_type = "dict"
    THEN DVal("dict", [i \in DOMAIN values |-> <<DVal("str", values[i][1], 0), values[i][2]>>], oid)
    ELSE DVal(decode_type, values, oid)

\* Variation: the two-byte variant read as one byte
IntVariantWidthNarrow(variant) ==
    CASE variant = "1" -> 1 [] variant = "2" -> 1 [] variant = "4" -> 4 [] variant = "8" -> 8

\* The fixed width a variant key of the integer codec names
IntVariantWidth(variant) ==
    CASE variant = "1" -> 1 [] variant = "2" -> 2 [] variant = "4" -> 4 [] variant = "8" -> 8

\* Bytes following the lead byte of one UTF-8 character, Huge if the lead
\* byte is none (StringEncoderDecoder.decode, variant 1)
Utf8Following(lead) ==
    IF lead < 128 THEN 0
    ELSE IF lead >= 192 /\ lead < 224 THEN 1
    ELSE IF lead >= 224 /\ lead < 240 THEN 2
    ELSE IF lead >= 240 /\ lead < 248 THEN 3
    ELSE Huge

\* The object a codec's decode returns, built from what was just read
Built(d, type, oid) == IfOk(d, Return(d, DVal(type, d.ret, oid)))

BuiltInt(d, oid) == IfOk(d, Return(d, DVal("int", Normalise(d.ret), oid)))

IntDecode(variant, d, oid) ==
    BuiltInt(ReadCounted(IF variant = "..." THEN decode_variable_int(d)
                         ELSE Return(d, Digits(IntVariantWidth(variant)))), oid)

BytesDecode(d, oid) == Built(ReadCounted(decode_variable_int(d)), "bytes", oid)

\* bytes_read += source.read(n); the character's bytes are then in ret
CharTail(d, lead) == IfOk(d, Return(d, <<lead>> \o d.ret))

CharLead(d) ==
    IfOk(d, IF Utf8Following(d.ret[1]) = Huge THEN Raise(d, "ParseError")
            ELSE CharTail(read(d, Utf8Following(d.ret[1])), d.ret[1]))

StringDecode(variant, d, oid) ==
    IF variant = "0" THEN Return(d, DVal("str", <<>>, oid))
    ELSE IF variant = "1" THEN Built(DecodeText(CharLead(read(d, 1))), "str", oid)
    ELSE Built(decode_string(d), "str", oid)

ItemsCounted(d) == IfOk(d, DecodeItems(d, ToNat(d.ret), <<>>))

SequenceDecode(codec, d, oid) ==
    Built(ItemsCounted(decode_variable_int(d)), codec.arg, oid)

PairsCounted(d) == IfOk(d, DecodePairs(d, ToNat(d.ret), <<>>))

DictDecode(d, oid) == Built(PairsCounted(decode_variable_int(d)), "dict", oid)

Constructed(d, decode_type, oid) == IfOk(d, Return(d, Construct(decode_type, d.ret, oid)))

StructDecode(codec, d, oid) ==
    Constructed(DecodeFields(d, codec.arg.fields, 1, <<>>), codec.arg.decode_type, oid)

\* The object a sentinel codec was built with
SentinelType(arg) ==
    IF arg = "None" THEN "NoneType" ELSE IF arg = "SKIP" THEN "SkipType" ELSE "ellipsis"

\* ------------------------------------------------------------------------
\* DecimalEncoder (type_encoder_decoders.py).  A Decimal is held as
\* [negative, string_value]: whether value < 0, and str() of the value
\* with the sign of a negative one removed (0 - value).
\* ------------------------------------------------------------------------

\* _DECODE_MAP = "0123456789."
DECODE_MAP == <<48, 49, 50, 51, 52, 53, 54, 55, 56, 57, 46>>

DecimalValue(negative, string_value) == [negative |-> negative, string_value |-> string_value]

RECURSIVE StripZeros(_)
\* Leading zeros of the integer part do not show in str(Decimal(text))
StripZeros(text) ==
    IF Len(text) > 1 /\ text[1] = 48 /\ text[2] # 46 THEN StripZeros(Tail(text)) ELSE text

\* str(decimal.Decimal(text)) for digits with at most one '.':
\* '.5' is 0.5, '1.' is 1, '007' is 7; the fraction digits are kept
DecimalStr(text) ==
    LET whole == IF text[1] = 46 THEN <<48>> \o text ELSE text
        ended == IF whole[Len(whole)] = 46 THEN SubSeq(whole, 1, Len(whole) - 1) ELSE whole
    IN  StripZeros(ended)

\* decimal.Decimal(text) takes the text: at least one digit, at most one '.'
DecimalSyntax(text) ==
    /\ \E i \in DOMAIN text : text[i] # 46
    /\ Cardinality({i \in DOMAIN text : text[i] = 46}) <= 1

RECURSIVE DecodeIter(_, _, _)
\* decode_iter(): the characters yielded from byte i on; an index outside
\* _DECODE_MAP ends the generator, with ParseError unless the low nibble
\* of the byte is 0x0F
DecodeIter(bytes_read, i, acc) ==
    IF i > Len(bytes_read) THEN [raised |-> "", chars |-> acc]
    ELSE LET high == bytes_read[i] \div 16
             low == bytes_read[i] % 16
         IN  IF high >= Len(DECODE_MAP)
             THEN [raised |-> IF low # 15 THEN "ParseError" ELSE "", chars |-> acc]
             ELSE IF low >= Len(DECODE_MAP)
             THEN [raised |-> IF low # 15 THEN "ParseError" ELSE "",
                   chars |-> Append(acc, DECODE_MAP[high + 1])]
             ELSE DecodeIter(bytes_read, i + 1,
                             acc \o <<DECODE_MAP[high + 1], DECODE_MAP[low + 1]>>)

\* decimal.Decimal(''.join(decode_iter())) * variant
DecimalJoined(d, r, variant, oid) ==
    IF r.raised # "" THEN Raise(d, r.raised)
    ELSE IF ~DecimalSyntax(r.chars) THEN Raise(d, "InvalidOperation")
    ELSE Return(d, DVal("Decimal", DecimalValue(variant = "-1", DecimalStr(r.chars)), oid))

DecimalBuilt(d, variant, oid) ==
    IfOk(d, DecimalJoined(d, DecodeIter(d.ret, 1, <<>>), variant, oid))

\* bytes_read = source.read(int(length / 2) + (length % 2))
DecimalCounted(d) ==
    IfOk(d, IF ToNat(d.ret) = Huge THEN read(d, Huge)
            ELSE read(d, (ToNat(d.ret) \div 2) + (ToNat(d.ret) % 2)))

\* DecimalEncoder.decode
DecimalDecode(variant, d, oid) ==
    DecimalBuilt(DecimalCounted(decode_variable_int(d)), variant, oid)

\* decoder.decode(variant, self); oid names the object it builds
codec_decode(codec, variant, d, oid) ==
    CASE codec.kind = "Sentinel" -> Return(d, DVal(SentinelType(codec.arg), <<>>, 0))
      [] codec.kind = "Bool" -> Return(d, DVal("bool", variant = "True", 0))
      [] codec.kind = "Int" -> IntDecode(variant, d, oid)
      [] codec.kind = "Bytes" -> BytesDecode(d, oid)
      [] codec.kind = "String" -> StringDecode(variant, d, oid)
      [] codec.kind = "Decimal" -> DecimalDecode(variant, d, oid)
      [] codec.kind = "Sequence" -> SequenceDecode(codec, d, oid)
      [] codec.kind = "Dict" -> DictDecode(d, oid)
      [] codec.kind = "Struct" -> StructDecode(codec, d, oid)

VariantKeyRead(d, code, count, acc) ==
    IfOk(d, ReadVariants(d, Less(count), Append(acc, <<code, d.ret>>)))

\* Variation: a variant key may be preceded by a declaration
VariantCodeReadAllowing(d, count, acc) ==
    IfOk(d, VariantKeyRead(decode_object(d, FALSE, TRUE), ToNat(d.ret), count, acc))

VariantCodeRead(d, count, acc) ==
    IfOk(d, VariantKeyRead(decode_object(d, FALSE, FALSE), ToNat(d.ret), count, acc))

\* variants.append((self.decode_variable_int(), self.decode_object(type_def_okay=False)))
ReadVariants(d, count, acc) ==
    IfOk(d, IF count = 0 THEN Return(d, acc)
            ELSE VariantCodeRead(decode_variable_int(d), count, acc))

FieldNameRead(d, count, acc) == IfOk(d, ReadFields(d, Less(count), Append(acc, d.ret)))

\* fields.append(self.decode_string())
ReadFields(d, count, acc) ==
    IfOk(d, IF count = 0 THEN Return(d, acc)
            ELSE FieldNameRead(decode_string(d), count, acc))

\* The field of a definition with the given wire name ({f.name: f}[name])
ExpectedField(struct_def, name) ==
    struct_def.fields[SetMax({j \in DOMAIN struct_def.fields :
                                 struct_def.fields[j].name = name})]

\* expected_fields[f] for a name the definition has not: KeyError
MissingField(struct_def, fields) ==
    \E i \in DOMAIN fields :
        \A j \in DOMAIN struct_def.fields : struct_def.fields[j].name # fields[i]

\* Variation: a record the schema knows is decoded as an unknown one
KnownAsGeneric(struct_def, fields) ==
    StructDefinition("NoneType", "dict", struct_def.struct_name,
        [i \in DOMAIN fields |-> StructFieldMap(fields[i], fields[i], fields[i])])

\* The definition of a record the schema knows, its fields as on the wire
KnownDefinition(struct_def, fields) ==
    StructDefinition(struct_def.encode_type, struct_def.decode_type, struct_def.struct_name,
        [i \in DOMAIN fields |->
            StructFieldMap(ExpectedField(struct_def, fields[i]).encode_source,
                           ExpectedField(struct_def, fields[i]).decode_target,
                           fields[i])])

\* Variation: the fields of an unknown record get no target
GenericNoTargets(struct_name, fields) ==
    StructDefinition("NoneType", "dict", struct_name,
        [i \in DOMAIN fields |-> StructFieldMap(fields[i], SkipName, fields[i])])

\* "We didn't know about this one, let's just decode it to a dict"
GenericDefinition(struct_name, fields) ==
    StructDefinition("NoneType", "dict", struct_name,
        [i \in DOMAIN fields |-> StructFieldMap(fields[i], fields[i], fields[i])])

\* "Match the given fields to what we have in the schema", then allocate
\* and register the decoder
MatchFields(d, struct_name, vs, fields) ==
    IF struct_name \notin DOMAIN d.structures
    THEN add_decoder(d, Codec("Struct", GenericDefinition(struct_name, fields)), vs)
    ELSE IF MissingField(d.structures[struct_name], fields) THEN Raise(d, "KeyError")
    ELSE add_decoder(d, Codec("Struct", KnownDefinition(d.structures[struct_name], fields)), vs)

\* _declare_structure, step by step
DeclFieldsRead(d, struct_name, vs) ==
    IfOk(d, Noted(MatchFields(d, struct_name, vs, d.ret),
                  "decl", d.pos, 0, {vs[i][1] : i \in DOMAIN vs}, TRUE))

DeclFieldCount(d, struct_name, vs) ==
    IfOk(d, DeclFieldsRead(ReadFields(d, ToNat(d.ret), <<>>), struct_name, vs))

DeclVariantsRead(d, struct_name) ==
    IfOk(d, DeclFieldCount(decode_variable_int(d), struct_name, d.ret))

DeclVariantCount(d, struct_name) ==
    IfOk(d, DeclVariantsRead(ReadVariants(d, ToNat(d.ret), <<>>), struct_name))

DeclNameRead(d) == IfOk(d, DeclVariantCount(decode_variable_int(d), d.ret))

decoder_declare_structure(d) == DeclNameRead(decode_string(d))

\* Variation: what is remembered is a copy of the result
StoreCopy(d, position) ==
    IfOk(d, [d EXCEPT !.back_references =
                [p \in DOMAIN d.back_references \cup {position} |->
                    IF p = position THEN [d.ret EXCEPT !.oid = 0 - position - 1]
                    ELSE d.back_references[p]],
                     !.log = Append(@, DEvent("done", position, 0, {}, TRUE))])

\* self._back_references[position] = result
StoreResult(d, position) ==
    IfOk(d, [d EXCEPT !.back_references =
                [p \in DOMAIN d.back_references \cup {position} |->
                    IF p = position THEN d.ret ELSE d.back_references[p]],
                     !.log = Append(@, DEvent("done", position, 0, {}, TRUE))])

\* Variation: the KeyError of the lookup is not translated
UnknownCodeAsKeyError(d) == Raise(d, "KeyError")

\* except KeyError as ex: raise exceptions.UnknownControlCode(control_code)
UnknownCode(d) == Raise(d, "UnknownControlCode")

\* decode_object, after the control code was read (or not)
Dispatch(d, position, eof_okay, type_def_okay) ==
    IF d.raised = "UnexpectedEof"
    THEN (IF eof_okay /\ d.pos = position THEN Raise(d, "StopIteration") ELSE d)
    ELSE IF d.raised # "" THEN d
    ELSE IF d.ret = Digits(STRUCT_DEF_CONTROL_CODE)
    THEN (IF ~type_def_okay THEN Raise(d, "ParseError")
          ELSE decode_object(decoder_declare_structure(d), eof_okay, type_def_okay))
    ELSE IF d.ret = Digits(BACK_REF_CONTROL_CODE)
    THEN decode_back_reference(d, position)
    ELSE IF ToNat(d.ret) \notin DOMAIN d.decoders
    THEN UnknownCode(d)
    ELSE StoreResult(codec_decode(d.decoders[ToNat(d.ret)].codec,
                                  d.decoders[ToNat(d.ret)].variant, d, position + 1),
                     position)

\* The control code was read: control_code = self.decode_variable_int()
CodeRead(d, position, type_def_okay) ==
    Noted(d, "code", position, ToNat(d.ret), DOMAIN d.decoders, type_def_okay)

decode_object(d, eof_okay, type_def_okay) ==
    IfOk(d, Dispatch(CodeRead(decode_variable_int(d), d.pos, type_def_okay),
                     d.pos, eof_okay, type_def_okay))

\* ------------------------------------------------------------------------
\* The schemas a decoder may be built from
\* ------------------------------------------------------------------------

\* Knows P with the single field x (the encoder's P has x and y)
FewerSchema ==
    define_structure(default_schema,
                     << <<"L", << <<97>>, <<98>> >> >>, <<"P", << <<120>> >> >> >>)

\* Record definitions handed to DecoderContext directly: P's field y has no
\* target (decode_target is SKIP)
SkipStructures ==
    [n \in {<<80>>} |->
        StructDefinition("P", "P", <<80>>,
            << StructFieldMap(<<120>>, <<120>>, <<120>>),
               StructFieldMap(<<121>>, SkipName, <<121>>) >>)]

DecoderSchemas == {"same", "default", "fewer", "skip"}

DecoderStructures(schema) ==
    CASE schema = "same" -> TestSchema.structures_by_name
      [] schema = "default" -> default_schema.structures_by_name
      [] schema = "fewer" -> FewerSchema.structures_by_name
      [] schema = "skip" -> SkipStructures

\* ------------------------------------------------------------------------
\* The state machine: a caller encodes up to MaxCalls objects into one
\* sink, then a reader opens a decoder over the first `cut` bytes of what
\* was written (a cut within CutWindow bytes of either end) and iterates it
\* until it ends or raises.
\* ------------------------------------------------------------------------

\* Where the source may end: within CutWindow bytes of either end
Cuts(n) == {c \in 0..n : c <= CutWindow \/ c >= n - CutWindow}

VARIABLES
    phase,      \* "schema", "application", "encoding", "decoding", "finished"
    enc,        \* the EncoderContext
    calls,      \* the top-level encode calls so far: [id, raised, start, end]
    dec,        \* the DecoderContext
    dec_schema, \* which schema the decoder was built from
    yielded,    \* the objects the decoder's iteration has produced
    outcome,    \* how the iteration ended: "", "StopIteration" or the exception
    app_schema, \* the Schema the application has built
    dicts,      \* the dict objects of schemas and contexts: dicts[i] holds
                \* the items of the dict with identity i
    schemas,    \* the Schema objects: the identities of their four dicts
    contexts    \* the contexts built from schemas[..], their tables by identity

vars == <<phase, enc, calls, dec, dec_schema, yielded, outcome, app_schema,
          dicts, schemas, contexts>>

\* ------------------------------------------------------------------------
\* Objects shared by reference.  A Schema holds four dicts and a context
\* two; dict.copy() makes a new dict object, an item assignment changes the
\* dict object for every holder of it.
\* ------------------------------------------------------------------------

SchemaObject(encoders, decoders, structures_by_name, structures_by_type) ==
    [encoders |-> encoders, decoders |-> decoders,
     structures_by_name |-> structures_by_name, structures_by_type |-> structures_by_type]

\* The module's default_schema, and the application's Schema() with the
\* record classes L and P defined
InitObjects ==
    /\ dicts = << default_schema.encoders, default_schema.decoders,
                  default_schema.structures_by_name, default_schema.structures_by_type,
                  TestSchema.encoders, TestSchema.decoders,
                  TestSchema.structures_by_name, TestSchema.structures_by_type >>
    /\ schemas = << SchemaObject(1, 2, 3, 4), SchemaObject(5, 6, 7, 8) >>
    /\ contexts = <<>>

Init ==
    /\ phase = "encoding"
    /\ enc = NewEncoderContext(TestSchema.encoders, TestSchema.structures_by_type)
    /\ calls = <<>>
    /\ dec = NewDecoderContext(TestSchema.decoders, TestSchema.structures_by_name, <<>>)
    /\ dec_schema = "same"
    /\ yielded = <<>>
    /\ outcome = ""
    /\ app_schema = TestSchema
    /\ InitObjects

\* EncoderContext.__call__(value)
EncoderCall(o) ==
    /\ phase = "encoding"
    /\ Len(calls) < MaxCalls
    /\ LET e1 == encode_object([enc EXCEPT !.raised = ""], o, FALSE) IN
       /\ enc' = e1
       /\ calls' = Append(calls, [id |-> o, raised |-> e1.raised,
                                  start |-> tell(enc), end |-> tell(e1)])
    /\ UNCHANGED <<phase, dec, dec_schema, yielded, outcome, app_schema, dicts, schemas, contexts>>

\* Schema.decoder(source), the source holding the first cut bytes written
SchemaDecoder(schema, cut) ==
    /\ phase = "encoding"
    /\ phase' = "decoding"
    /\ dec' = NewDecoderContext(TestSchema.decoders, DecoderStructures(schema),
                                SubSeq(enc.target, 1, cut))
    /\ dec_schema' = schema
    /\ UNCHANGED <<enc, calls, yielded, outcome, app_schema, dicts, schemas, contexts>>

\* DecoderContext.__next__
DecoderNext ==
    /\ phase = "decoding"
    /\ LET d1 == decode_object(dec, TRUE, TRUE) IN
       /\ dec' = Return(d1, <<>>)
       /\ IF d1.raised = ""
          THEN /\ yielded' = Append(yielded, d1.ret)
               /\ UNCHANGED <<phase, outcome>>
          ELSE /\ outcome' = d1.raised
               /\ phase' = "finished"
               /\ UNCHANGED yielded
    /\ UNCHANGED <<enc, calls, dec_schema, app_schema, dicts, schemas, contexts>>

Next ==
    \/ \E o \in Roots : EncoderCall(o)
    \/ \E schema \in DecoderSchemas, cut \in Cuts(Len(enc.target)) : SchemaDecoder(schema, cut)
    \/ DecoderNext

Spec == Init /\ [][Next]_vars

\* ------------------------------------------------------------------------
\* What the caller expects to get back
\* ------------------------------------------------------------------------

IsRecord(o) == Heap[o].type \in DOMAIN TestSchema.structures_by_type

\* The declared fields of a record object's class
FieldsOf(o) == TestSchema.structures_by_type[Heap[o].type].fields

\* The object a record hands over for a field: the attribute, or SKIP
FieldObject(o, field) ==
    IF HasKey(Heap[o].val, field.encode_source)
    THEN Lookup(Heap[o].val, field.encode_source)
    ELSE SkipId

\* The encoder may refer back to the object instead of writing it again
BackReferable(o) ==
    IF IsRecord(o) THEN TRUE
    ELSE IF Heap[o].type \notin DOMAIN TestSchema.encoders THEN FALSE
    ELSE select_variant(TestSchema.encoders[Heap[o].type].codec, o).allow_backref

\* Under the decoder's schema the record class is not known by name
DecodesAsMapping(schema, o) ==
    schema = "default" \/ (schema = "skip" /\ Heap[o].type = "L")

\* Under the decoder's schema the field has no target
WithoutTarget(schema, o, field) ==
    schema \in {"skip", "fewer"} /\ Heap[o].type = "P" /\ field.name = <<121>>

\* The names of the fields a decoded record is built from
KeptNames(schema, o) ==
    LET kept == SelectSeq(FieldsOf(o),
                    LAMBDA f : FieldObject(o, f) # SkipId /\ ~WithoutTarget(schema, o, f))
    IN  [i \in DOMAIN kept |-> kept[i].name]

RECURSIVE Matches(_, _, _)
\* The decoded object v is what a decoder of the schema owes for object o:
\* the same kind and content, item by item
Matches(schema, o, v) ==
    IF IsRecord(o)
    THEN /\ v.type = (IF DecodesAsMapping(schema, o) THEN "dict" ELSE Heap[o].type)
         /\ Len(v.val) = Len(KeptNames(schema, o))
         /\ \A i \in DOMAIN v.val :
               /\ IF DecodesAsMapping(schema, o)
                  THEN v.val[i][1].type = "str" /\ v.val[i][1].val = KeptNames(schema, o)[i]
                  ELSE v.val[i][1] = KeptNames(schema, o)[i]
               /\ Matches(schema, Lookup(Heap[o].val, KeptNames(schema, o)[i]), v.val[i][2])
    ELSE IF v.type # Heap[o].type THEN FALSE
    ELSE IF v.type \in {"NoneType", "ellipsis", "SkipType"} THEN TRUE
    ELSE IF v.type \in {"bool", "int", "str", "bytes"} THEN v.val = Heap[o].val
    ELSE IF v.type \in {"tuple", "list"}
    THEN /\ Len(v.val) = Len(Heap[o].val)
         /\ \A i \in DOMAIN v.val : Matches(schema, Heap[o].val[i], v.val[i])
    ELSE /\ v.type = "dict"
         /\ Len(v.val) = Len(Heap[o].val)
         /\ \A i \in DOMAIN v.val :
               /\ Matches(schema, Heap[o].val[i][1], v.val[i][1])
               /\ Matches(schema, Heap[o].val[i][2], v.val[i][2])

RECURSIVE Plain(_)
\* Built from sentinels, booleans, integers, text, byte strings and nested
\* lists, tuples and mappings of these
Plain(o) ==
    IF Heap[o].type \in {"NoneType", "ellipsis", "bool", "int", "str", "bytes"} THEN TRUE
    ELSE IF Heap[o].type \in {"tuple", "list"}
    THEN \A i \in DOMAIN Heap[o].val : Plain(Heap[o].val[i])
    ELSE IF Heap[o].type = "dict"
    THEN \A i \in DOMAIN Heap[o].val : Plain(Heap[o].val[i][1]) /\ Plain(Heap[o].val[i][2])
    ELSE FALSE

RECURSIVE Populated(_)
\* No record in the object lacks an attribute, no object is of unknown type
Populated(o) ==
    IF IsRecord(o)
    THEN \A i \in DOMAIN FieldsOf(o) :
            /\ FieldObject(o, FieldsOf(o)[i]) # SkipId
            /\ Populated(FieldObject(o, FieldsOf(o)[i]))
    ELSE IF Heap[o].type \in {"tuple", "list"}
    THEN \A i \in DOMAIN Heap[o].val : Populated(Heap[o].val[i])
    ELSE IF Heap[o].type = "dict"
    THEN \A i \in DOMAIN Heap[o].val :
            Populated(Heap[o].val[i][1]) /\ Populated(Heap[o].val[i][2])
    ELSE Heap[o].type # "object"

RECURSIVE IdPairs(_, _)
\* <<identity of an original, identity of its decoded counterpart>> for the
\* object and everything in it (decoder of the same schema)
IdPairs(o, v) ==
    {<<o, v.oid>>} \cup
    (IF IsRecord(o)
     THEN UNION {IdPairs(Lookup(Heap[o].val, v.val[i][1]), v.val[i][2]) : i \in DOMAIN v.val}
     ELSE IF v.type \in {"tuple", "list"}
     THEN UNION {IdPairs(Heap[o].val[i], v.val[i]) : i \in DOMAIN v.val}
     ELSE IF v.type = "dict"
     THEN UNION {IdPairs(Heap[o].val[i][1], v.val[i][1]) \cup
                 IdPairs(Heap[o].val[i][2], v.val[i][2]) : i \in DOMAIN v.val}
     ELSE {})

\* Every encode call made so far returned normally
AllEncoded == \A i \in DOMAIN calls : calls[i].raised = ""

\* A decoder has been opened over everything the encoder wrote
WholeStream == phase # "encoding" /\ dec.source = enc.target

\* The iteration has produced, in order, what was encoded, and ends normally
YieldsOriginals(schema) ==
    /\ Len(yielded) <= Len(calls)
    /\ \A i \in DOMAIN yielded : Matches(schema, calls[i].id, yielded[i])
    /\ outcome \in {"", "StopIteration"}
    /\ phase = "finished" => outcome = "StopIteration" /\ Len(yielded) = Len(calls)

LogIndex == DOMAIN enc.log

DeclsOf(type) == {k \in LogIndex : enc.log[k].ev = "decl" /\ enc.log[k].type = type}

DataOf(type) == {k \in LogIndex : enc.log[k].ev = "data" /\ enc.log[k].type = type}

\* The bytes of the sink from position pos (0-based) on are the varint of n
VarIntAt(pos, n) ==
    /\ pos + Len(VarIntBytes(Digits(n))) <= Len(enc.target)
    /\ SubSeq(enc.target, pos + 1, pos + Len(VarIntBytes(Digits(n)))) = VarIntBytes(Digits(n))

\* What a fresh encoder context of the schema writes for one object
EncodedAlone(o) ==
    encode_object(NewEncoderContext(TestSchema.encoders, TestSchema.structures_by_type),
                  o, FALSE).target

\* ------------------------------------------------------------------------
\* Properties
\* ------------------------------------------------------------------------

\* C1: plain values (sentinels, booleans, integers, text, byte strings,
\* nested lists, tuples and mappings) written one by one to one encoder
\* context come back from a decoder of the same schema equal, of the same
\* kind and in the same order, and the iteration then ends normally.
C1_SequenceRoundTrip ==
    (WholeStream /\ dec_schema = "same" /\ AllEncoded
        /\ \A i \in DOMAIN calls : Plain(calls[i].id))
    => YieldsOriginals("same")

C1_Witness ==
    /\ WholeStream /\ dec_schema = "same" /\ AllEncoded /\ phase = "finished"
    /\ Len(calls) = 2 /\ calls[1].id = 17 /\ calls[2].id = 8
    /\ Len(yielded) = 2 /\ outcome = "StopIteration"

\* C2: for every record type with a value in the stream exactly one
\* declaration (control code 0) is written, before the first control code of
\* any value of the type, also when that value is nested in another value's
\* payload; later values of the type come without a declaration.
C2_DeclaredOnceBeforeUse ==
    \A type \in DOMAIN TestSchema.structures_by_type :
        /\ Cardinality(DeclsOf(type)) <= 1
        /\ \A k \in DeclsOf(type) : VarIntAt(enc.log[k].pos, STRUCT_DEF_CONTROL_CODE)
        /\ DataOf(type) # {} =>
              /\ Cardinality(DeclsOf(type)) = 1
              /\ \A k \in DeclsOf(type), j \in DataOf(type) :
                    k < j /\ enc.log[k].pos < enc.log[j].pos

C2_Witness ==
    /\ \E k \in DeclsOf("P"), j \in DataOf("L") : j < k
    /\ Cardinality(DataOf("P")) >= 2
    /\ Cardinality(DeclsOf("P")) = 1

\* C3: a back-referable object is written in data form at most once; every
\* later encode of it writes varint 1 and the varint of the offset (position
\* of this code minus position of the control code of the data form) and
\* nothing else, so that (v, v) takes 2 bytes more than (v,) when the offset
\* is below 128.
C3_DataFormOnce ==
    /\ \A i \in LogIndex, j \in LogIndex :
          (i < j /\ enc.log[i].ev = "done" /\ enc.log[j].ev \in {"data", "done"})
          => enc.log[j].id # enc.log[i].id
    /\ \A j \in LogIndex : enc.log[j].ev = "ref" =>
          /\ \E i \in 1..(j - 1) :
                /\ enc.log[i].ev = "done" /\ enc.log[i].id = enc.log[j].id
                /\ enc.log[j].arg = enc.log[j].pos - enc.log[i].pos
          /\ VarIntAt(enc.log[j].pos, BACK_REF_CONTROL_CODE)
          /\ VarIntAt(enc.log[j].pos + 1, enc.log[j].arg)
    /\ \A i \in DOMAIN calls, j \in DOMAIN calls :
          (i < j /\ calls[i].id = calls[j].id /\ calls[i].raised = ""
              /\ BackReferable(calls[i].id))
          => /\ calls[j].raised = ""
             /\ \E k \in LogIndex :
                   /\ enc.log[k].ev = "ref" /\ enc.log[k].pos = calls[j].start
                   /\ calls[j].end - calls[j].start =
                         1 + Len(VarIntBytes(Digits(enc.log[k].arg)))
                   /\ enc.log[k].arg < 128 => calls[j].end - calls[j].start = 2
    /\ (calls # <<>> /\ calls[1].id = 15) =>
          calls[1].end = Len(EncodedAlone(14)) + 2

C3_Witness ==
    /\ Len(calls) = 2 /\ calls[1].id = 15 /\ calls[2].id = 15
    /\ calls[2].end - calls[2].start = 2
    /\ calls[1].end = Len(EncodedAlone(14)) + 2

\* C4: a back reference read by the decoder returns the very object it
\* returned for the value at the target position, not a copy: the two items
\* of a decoded (v, v) are one object, and it equals v.
C4_BackReferenceSameObject ==
    (WholeStream /\ dec_schema = "same" /\ AllEncoded)
    => /\ \A i \in DOMAIN yielded : Matches("same", calls[i].id, yielded[i])
       /\ \A p, q \in UNION {IdPairs(calls[i].id, yielded[i]) : i \in DOMAIN yielded} :
             (p[1] = q[1] /\ BackReferable(p[1])) => (p[2] = q[2] /\ p[2] > 0)

C4_Witness ==
    /\ WholeStream /\ dec_schema = "same" /\ calls # <<>> /\ calls[1].id = 15
    /\ Len(yielded) >= 1
    /\ yielded[1].val[1].oid = yielded[1].val[2].oid
    /\ yielded[1].val[1].oid > 0
    /\ yielded[1].val[2].val = Heap[12].val

\* C5: every back reference the encoder writes has an offset of at least 1
\* and points at the control code of a value whose data form was completely
\* written before the reference; never forward, never into a data form that
\* is still being written.
C5_BackReferencePointsBack ==
    \A j \in LogIndex : enc.log[j].ev = "ref" =>
        /\ enc.log[j].arg >= 1
        /\ \E i \in 1..(j - 1) :
              /\ enc.log[i].ev = "done"
              /\ enc.log[i].pos = enc.log[j].pos - enc.log[j].arg
              /\ enc.log[i].arg <= enc.log[j].pos
              /\ \E k \in 1..(i - 1) :
                    /\ enc.log[k].ev = "data" /\ enc.log[k].id = enc.log[i].id
                    /\ enc.log[k].pos = enc.log[i].pos
                    /\ VarIntAt(enc.log[k].pos, enc.log[k].arg)

C5_Witness ==
    \E j \in LogIndex :
        /\ enc.log[j].ev = "ref" /\ enc.log[j].arg >= 128
        /\ enc.log[j].pos - enc.log[j].arg = 0

\* The "field" events of the record object o, in the order written
FieldEvents(o) == SelectSeq(enc.log, LAMBDA ev : ev.ev = "field" /\ ev.id = o)

\* The control code the schema gives the SKIP sentinel
SkipCode == Lookup(TestSchema.encoders["SkipType"].variant_map, "None")

\* The position of the top-level control code of each encode call: where the
\* value's data form or back reference starts, after a declaration if any
ValueStarts ==
    {enc.log[k].pos : k \in {n \in LogIndex :
        /\ enc.log[n].ev \in {"data", "ref"}
        /\ \E i \in DOMAIN calls :
              /\ calls[i].id = enc.log[n].id
              /\ calls[i].start <= enc.log[n].pos
              /\ enc.log[n].pos < calls[i].end}}

\* The positions of the stream at which a top-level control code is read
TopLevelBoundaries ==
    {0} \cup {calls[i].start : i \in DOMAIN calls}
        \cup {calls[i].end : i \in DOMAIN calls}
        \cup ValueStarts

\* The record decoders a declaration has registered with the decoder
DeclaredCodes == {c \in DOMAIN dec.decoders : c \notin DOMAIN TestSchema.decoders}

\* C6: a declaration naming a record the decoder's schema knows, with a
\* field the schema's definition lacks, is accepted; the field's value is
\* read and ignored for every value of the record, which is built from the
\* remaining fields.
C6_UnknownFieldIgnored ==
    (WholeStream /\ dec_schema = "fewer" /\ AllEncoded) => YieldsOriginals("fewer")

\* C7: a decoder whose schema has no definition for a declared record name
\* decodes every value of the record as a mapping from the declared field
\* names to the decoded values, fields holding SKIP left out, and does not
\* fail; several values are decoded from the one declaration.
C7_UnknownRecordAsMapping ==
    (WholeStream /\ dec_schema = "default" /\ AllEncoded)
    => /\ YieldsOriginals("default")
       /\ phase = "finished" =>
             Cardinality(DeclaredCodes) =
                Cardinality({k \in LogIndex : enc.log[k].ev = "decl"})

C7_Witness ==
    /\ WholeStream /\ dec_schema = "default" /\ phase = "finished"
    /\ outcome = "StopIteration"
    /\ Len(calls) = 1 /\ calls[1].id = 21 /\ Len(yielded) = 1
    /\ Cardinality(DeclaredCodes) = 1
    /\ yielded[1].val[1].type = "dict" /\ Len(yielded[1].val[1].val) = 1
    /\ yielded[1].val[2].type = "dict" /\ Len(yielded[1].val[2].val) = 2
    /\ yielded[1].val[2].val[2][1].val = <<121>>

\* C8: with one schema on both sides, a record comes back as an equal
\* record of the same type, also when its fields hold lists, tuples,
\* mappings, None or other records declared inside the record's payload.
C8_RecordRoundTrip ==
    (WholeStream /\ dec_schema = "same" /\ AllEncoded
        /\ \A i \in DOMAIN calls : Populated(calls[i].id))
    => /\ YieldsOriginals("same")
       /\ \A i \in DOMAIN yielded :
             IsRecord(calls[i].id) =>
                /\ yielded[i].type = Heap[calls[i].id].type
                /\ \A n \in DOMAIN FieldsOf(calls[i].id) :
                      HasKey(yielded[i].val, FieldsOf(calls[i].id)[n].name)

C8_Witness ==
    /\ WholeStream /\ dec_schema = "same" /\ phase = "finished"
    /\ Len(calls) = 2 /\ calls[1].id = 20 /\ calls[2].id = 22
    /\ Len(yielded) = 2 /\ outcome = "StopIteration"
    /\ \E k \in DeclsOf("P"), j \in DataOf("L") : j < k
    /\ yielded[1].type = "L" /\ yielded[1].val[1][2].type = "P"
    /\ yielded[1].val[2][2].type = "dict"
    /\ yielded[2].val[2][2].type = "tuple"

\* C9: a record's data form holds one encoded value per field of its
\* definition, in declared order, the SKIP sentinel standing for an absent
\* attribute; the decoder reads one value per declared field in that order
\* and leaves out of the constructor's arguments every field whose value is
\* SKIP or whose target is SKIP.
C9_OneValuePerField ==
    /\ \A j \in LogIndex :
          (enc.log[j].ev = "done" /\ IsRecord(enc.log[j].id)) =>
             /\ Len(FieldEvents(enc.log[j].id)) = Len(FieldsOf(enc.log[j].id))
             /\ FieldEvents(enc.log[j].id)[1].pos = enc.log[j].pos + 1
             /\ \A n \in DOMAIN FieldEvents(enc.log[j].id) :
                   /\ FieldEvents(enc.log[j].id)[n].arg =
                         FieldObject(enc.log[j].id, FieldsOf(enc.log[j].id)[n])
                   /\ FieldEvents(enc.log[j].id)[n].pos <
                         (IF n < Len(FieldEvents(enc.log[j].id))
                          THEN FieldEvents(enc.log[j].id)[n + 1].pos
                          ELSE enc.log[j].arg)
                   /\ FieldEvents(enc.log[j].id)[n].arg = SkipId =>
                         /\ VarIntAt(FieldEvents(enc.log[j].id)[n].pos, SkipCode)
                         /\ (IF n < Len(FieldEvents(enc.log[j].id))
                             THEN FieldEvents(enc.log[j].id)[n + 1].pos
                             ELSE enc.log[j].arg) = FieldEvents(enc.log[j].id)[n].pos + 1
    /\ (WholeStream /\ dec_schema \in {"same", "skip"} /\ AllEncoded) =>
          /\ YieldsOriginals(dec_schema)
          /\ phase = "finished" => dec.pos = Len(dec.source)

C9_Witness ==
    /\ WholeStream /\ dec_schema = "skip" /\ phase = "finished"
    /\ Len(calls) = 2 /\ calls[1].id = 19 /\ calls[2].id = 18
    /\ Len(yielded) = 2 /\ outcome = "StopIteration"
    /\ FieldEvents(19)[2].arg = SkipId
    /\ yielded[1].type = "P" /\ Len(yielded[1].val) = 1
    /\ yielded[2].type = "P" /\ Len(yielded[2].val) = 1

\* C10: the iteration ends normally exactly when the source is exhausted
\* where a top-level control code would be read, none of its bytes consumed
\* (directly after a complete top-level declaration included); a source
\* that ends inside a varint, a payload, a nested value or a declaration
\* raises UnexpectedEof.
C10_EndOfStream ==
    (phase = "finished" /\ AllEncoded /\ dec_schema # "fewer")
    => /\ Len(dec.source) \in TopLevelBoundaries => outcome = "StopIteration"
       /\ Len(dec.source) \notin TopLevelBoundaries => outcome = "UnexpectedEof"

C10_Witness ==
    /\ phase = "finished" /\ AllEncoded /\ dec_schema = "same"
    /\ Len(calls) = 1 /\ calls[1].id = 18
    /\ Len(dec.source) \in ValueStarts /\ Len(dec.source) > 0
    /\ outcome = "StopIteration" /\ yielded = <<>>

\* ------------------------------------------------------------------------
\* A decoder context over arbitrary bytes: a reader opens a decoder over a
\* source it did not write and calls __next__ and decode_variable_int on it
\* until the source ends or a call raises.
\* ------------------------------------------------------------------------

\* The integers handed to encode_variable_int, as digits: a leading digit
\* followed by up to MaxFill digits that are all 0 or all 255, and zero
LeadDigits == {1, 15, 16, 31, 32, 63, 64, 127, 128, 255}

VarIntInputs ==
    {<<>>} \cup
    {<<h>> \o [i \in 1..k |-> f] : h \in LeadDigits, f \in {0, 255}, k \in 0..MaxFill}

\* The bytes short sources are made of: declaration and back reference
\* codes, an unbound code, None, a one-byte int, list, and the first bytes
\* of a two-byte and of an invalid varint
SourceBytes == {0, 1, 2, 10, 14, 29, 128, 240}

ShortSources == UNION {[1..k -> SourceBytes] : k \in 0..MaxSourceLen}

\* Sources written by hand
CraftedSources ==
    { <<22, 2, 104, 105, 1, 4>>,              \* 'hi', then a reference to it
      <<14, 127, 1, 1>>,                      \* a reference into a payload
      <<29, 2, 29, 1, 1, 4, 10>>,             \* a reference to the outer list
      <<0, 1, 80, 1, 32, 0>>,                 \* a declaration as variant key
      <<0, 1, 80, 1, 32, 0, 0, 0, 0>>,
      <<0, 1, 80, 2, 32, 10, 33, 0, 0>>,
      <<0, 1, 80, 1, 32, 10, 0, 33>>,         \* P declared with code 32; 33
      <<0, 1, 80, 1, 32, 10, 0, 32, 32>>,     \* two values of it
      <<0, 1, 81, 1, 40, 10, 1, 1, 122, 40, 14, 7>>,  \* unknown Q(z=7)
      <<0, 1, 80, 1, 32, 10, 1, 1, 122>>,     \* P with a field z
      <<20, 195, 40>>,                        \* one character, bad UTF-8
      <<22, 1, 255>>,                         \* text, bad UTF-8
      <<20, 255>>,                            \* one character, bad lead byte
      <<31, 1, 29, 0, 10>>,                   \* {[]: None}
      <<128, 5, 0>>,                          \* code 5 in two bytes
      <<192, 0, 64, 0, 170>>,
      <<224, 0, 0, 0, 32, 0, 0, 0, 187>>,
      <<207, 255, 255, 255, 1>>,
      <<255, 0>> }

Sources ==
    ShortSources \cup CraftedSources
        \cup {VarIntBytes(n) \o <<170>> : n \in {v \in VarIntInputs : VarIntWidth(v) > 0}}

\* The reader's decoder
InitDecoder ==
    /\ phase = "decoding"
    /\ enc = NewEncoderContext(TestSchema.encoders, TestSchema.structures_by_type)
    /\ calls = <<>>
    /\ dec_schema \in {"same", "default"}
    /\ \E source \in Sources :
          dec = NewDecoderContext(TestSchema.decoders, DecoderStructures(dec_schema), source)
    /\ yielded = <<>>
    /\ outcome = ""
    /\ app_schema = TestSchema
    /\ InitObjects

\* DecoderContext.decode_variable_int, called by the reader; what it
\* returned is kept with the positions before and after the call
DecodeVariableInt ==
    /\ phase = "decoding"
    /\ LET d1 == decode_variable_int(dec) IN
       /\ dec' = Return(d1, <<>>)
       /\ IF d1.raised = ""
          THEN /\ yielded' = Append(yielded, [type |-> "varint", val |-> d1.ret, oid |-> 0,
                                              from |-> dec.pos, to |-> d1.pos])
               /\ UNCHANGED <<phase, outcome>>
          ELSE /\ outcome' = d1.raised
               /\ phase' = "finished"
               /\ UNCHANGED yielded
    /\ UNCHANGED <<enc, calls, dec_schema, app_schema, dicts, schemas, contexts>>

NextDecoder ==
    \/ DecoderNext
    \/ DecodeVariableInt

DecoderSpec == InitDecoder /\ [][NextDecoder]_vars

\* The positions at which the decoder had completed a value before it wrote
\* entry j of its history
CompletedBefore(j) ==
    {dec.log[i].pos : i \in {n \in 1..(j - 1) : dec.log[n].ev = "done"}}

\* The control codes bound in the decoder's table before entry j: those of
\* the schema and those of the declarations read until then
BoundBefore(j) ==
    DOMAIN TestSchema.decoders
        \cup UNION {dec.log[i].known : i \in {n \in 1..(j - 1) : dec.log[n].ev = "decl"}}

\* The call that wrote the last entry of the history failed with ex
FailedAt(j, ex) == j = Len(dec.log) /\ phase = "finished" /\ outcome = ex

\* C11: a back reference whose target (its position minus the offset) is no
\* position at which the decoder has completed a value is a parse error:
\* offset 0, a target before the start, a target inside a payload and a
\* reference to a container that is still being decoded included.
C11_InvalidBackReference ==
    \A j \in DOMAIN dec.log :
        (dec.log[j].ev = "ref"
            /\ (dec.log[j].arg = Huge
                   \/ dec.log[j].pos - dec.log[j].arg \notin CompletedBefore(j)))
        => FailedAt(j, "ParseError")

C11_Witness ==
    /\ dec.source = <<29, 2, 29, 1, 1, 4, 10>>
    /\ yielded = <<>> /\ outcome = "ParseError"
    /\ dec.log[Len(dec.log)].ev = "ref"
    /\ dec.log[Len(dec.log)].pos = 4 /\ dec.log[Len(dec.log)].arg = 4
    /\ dec.log[1].ev = "code" /\ dec.log[1].pos = 0

\* C12: a control code other than 0 and 1 that neither the schema nor an
\* earlier declaration of the stream has bound raises UnknownControlCode,
\* and the call returns no value.
C12_UnknownControlCode ==
    \A j \in DOMAIN dec.log :
        dec.log[j].ev = "code" =>
            /\ dec.log[j].known = BoundBefore(j)
            /\ (dec.log[j].arg \notin {STRUCT_DEF_CONTROL_CODE, BACK_REF_CONTROL_CODE}
                    /\ dec.log[j].arg \notin BoundBefore(j))
               => FailedAt(j, "UnknownControlCode")

C12_Witness ==
    /\ dec.source = <<0, 1, 80, 1, 32, 10, 0, 33>>
    /\ yielded = <<>> /\ outcome = "UnknownControlCode"
    /\ dec.log[Len(dec.log)].ev = "code" /\ dec.log[Len(dec.log)].arg = 33
    /\ 32 \in dec.log[Len(dec.log)].known

\* Entry j of the history was written while a declaration was being read:
\* a declaration code was met earlier whose declaration is not yet complete
InsideDeclaration(j) ==
    Cardinality({n \in 1..(j - 1) : dec.log[n].ev = "code"
                                     /\ dec.log[n].arg = STRUCT_DEF_CONTROL_CODE})
        > Cardinality({n \in 1..(j - 1) : dec.log[n].ev = "decl"})

\* C13: the declaration code read as the control code of a variant key of
\* a declaration raises a parse error, and no codec is registered for the
\* declaration being read.
C13_DeclarationInVariantKey ==
    \A j \in DOMAIN dec.log :
        (dec.log[j].ev = "code" /\ dec.log[j].arg = STRUCT_DEF_CONTROL_CODE
            /\ InsideDeclaration(j))
        => /\ FailedAt(j, "ParseError")
           /\ ~dec.log[j].top
           /\ DOMAIN dec.decoders = BoundBefore(j)

C13_Witness ==
    /\ dec.source = <<0, 1, 80, 2, 32, 10, 33, 0, 0>>
    /\ yielded = <<>> /\ outcome = "ParseError"
    /\ dec.log[Len(dec.log)].ev = "code" /\ dec.log[Len(dec.log)].pos = 7
    /\ ~dec.log[Len(dec.log)].top
    /\ 32 \notin DOMAIN dec.decoders

\* The width announced by the high bits of a first byte below 1111xxxx, and
\* the value of those prefix bits
PrefixWidth(b) == IF b < 128 THEN 1 ELSE IF b < 192 THEN 2 ELSE IF b < 224 THEN 4 ELSE 8

PrefixBits(b) == IF b < 128 THEN 0 ELSE IF b < 192 THEN 128 ELSE IF b < 224 THEN 192 ELSE 224

\* The direct calls of decode_variable_int that returned
VarIntCalls == {i \in DOMAIN yielded : yielded[i].type = "varint"}

\* No call has returned and no control code was read: the first read of a
\* varint from the source has failed when the decoder is finished
FirstReadFailed == phase = "finished" /\ yielded = <<>> /\ dec.log = <<>>

\* C16: decode_variable_int takes the width from the high bits of the first
\* byte, consumes exactly that many bytes, and returns their big-endian
\* value without the prefix bits; it succeeds whenever the source holds
\* that many bytes and the first byte is not 1111xxxx; 80 00 decodes to 0;
\* and the bytes written by encode_variable_int for n decode to n.
C16_DecodeVarInt ==
    /\ \A i \in VarIntCalls :
          LET r == yielded[i]
              b == dec.source[r.from + 1]
          IN  /\ b < 240
              /\ r.to = r.from + PrefixWidth(b)
              /\ r.val = Normalise(<<b - PrefixBits(b)>>
                                   \o SubSeq(dec.source, r.from + 2, r.from + PrefixWidth(b)))
    /\ FirstReadFailed =>
          \/ dec.source = <<>>
          \/ dec.source[1] >= 240
          \/ Len(dec.source) < PrefixWidth(dec.source[1])
    /\ (1 \in VarIntCalls /\ Len(dec.source) >= 2
            /\ dec.source[1] = 128 /\ dec.source[2] = 0)
       => yielded[1].val = <<>> /\ yielded[1].to = 2
    /\ (1 \in VarIntCalls /\ dec.source[Len(dec.source)] = 170)
       => \A n \in VarIntInputs :
             (VarIntWidth(n) > 0 /\ dec.source = VarIntBytes(n) \o <<170>>)
             => yielded[1].val = n /\ yielded[1].to = Len(dec.source) - 1

C16_Witness ==
    /\ dec.source = <<224, 0, 0, 0, 32, 0, 0, 0, 187>>
    /\ 1 \in VarIntCalls
    /\ yielded[1].val = <<32, 0, 0, 0>> /\ yielded[1].from = 0 /\ yielded[1].to = 8

\* C18: a varint whose first byte is 1111xxxx is a parse error whatever
\* follows: no call returns a varint that starts with such a byte, and a
\* source that starts with one yields nothing and fails with ParseError.
C18_InvalidFirstByte ==
    /\ \A i \in VarIntCalls : dec.source[yielded[i].from + 1] < 240
    /\ (dec.source # <<>> /\ dec.source[1] >= 240)
       => /\ yielded = <<>> /\ dec.log = <<>>
          /\ phase = "finished" => outcome = "ParseError"

C18_Witness ==
    /\ dec.source = <<240, 0, 0>>
    /\ FirstReadFailed /\ outcome = "ParseError"

\* C19: every failure of a decoder over arbitrary bytes is a ParseError,
\* an UnexpectedEof or an UnknownControlCode ("StopIteration" is the
\* regular end of the iteration).
C19_OnlyParseErrors ==
    outcome \in {"", "StopIteration", "ParseError", "UnexpectedEof", "UnknownControlCode"}

\* ------------------------------------------------------------------------
\* The encoder context called directly: encode_object(value, simple_form)
\* and encode_variable_int(val), each call recorded with the context
\* before and after it
\* ------------------------------------------------------------------------

Called(op, arg, simple_form, before, after) ==
    [op |-> op, arg |-> arg, simple_form |-> simple_form,
     before |-> before, after |-> after]

\* EncoderContext.encode_object(value, simple_form)
EncodeObject(o, simple_form) ==
    /\ phase = "encoding"
    /\ Len(calls) < MaxCalls
    /\ LET e0 == [enc EXCEPT !.raised = ""]
           e1 == encode_object(e0, o, simple_form)
       IN  /\ enc' = e1
           /\ calls' = Append(calls, Called("encode_object", o, simple_form, e0, e1))
    /\ UNCHANGED <<phase, dec, dec_schema, yielded, outcome, app_schema, dicts, schemas, contexts>>

\* EncoderContext.encode_variable_int(val)
EncodeVariableInt(val) ==
    /\ phase = "encoding"
    /\ Len(calls) < MaxCalls
    /\ LET e0 == [enc EXCEPT !.raised = ""]
           e1 == encode_variable_int(e0, val)
       IN  /\ enc' = e1
           /\ calls' = Append(calls, Called("encode_variable_int", val, FALSE, e0, e1))
    /\ UNCHANGED <<phase, dec, dec_schema, yielded, outcome, app_schema, dicts, schemas, contexts>>

NextEncoder ==
    \/ \E o \in Ids, simple_form \in BOOLEAN : EncodeObject(o, simple_form)
    \/ \E val \in VarIntInputs : EncodeVariableInt(val)

EncoderSpec == Init /\ [][NextEncoder]_vars

\* The calls of one operation
CallsOf(op) == {i \in DOMAIN calls : calls[i].op = op}

\* What a call appended to the sink
WrittenBy(c) == SubSeq(c.after.target, Len(c.before.target) + 1, Len(c.after.target))

\* The sink as it was, followed by what the call appended
SinkKept(c) == SubSeq(c.after.target, 1, Len(c.before.target)) = c.before.target

\* A record type was declared in the stream of context e
DeclaredIn(e, type) ==
    \E k \in DOMAIN e.log : e.log[k].ev = "decl" /\ e.log[k].type = type

\* The type is a registered kind of the schema
RegisteredKind(type) == type \in DOMAIN TestSchema.encoders

\* The type is a record type defined in the schema
DefinedRecord(type) == type \in DOMAIN TestSchema.structures_by_type

\* C14: encode_object fails with ValueError on a value whose type is
\* neither a registered kind nor a defined record, and with simple_form on
\* a defined record not yet declared in the stream; the failing call
\* writes no byte, declares nothing, and leaves the code table, the code
\* counter and the back-reference table as they were.
C14_UnknownType ==
    \A i \in CallsOf("encode_object") :
        LET c == calls[i]
            type == Heap[c.arg].type
        IN  ((~RegisteredKind(type) /\ ~DefinedRecord(type))
                \/ (c.simple_form /\ DefinedRecord(type) /\ ~DeclaredIn(c.before, type)))
            => /\ c.after.raised = "ValueError"
               /\ c.after.target = c.before.target
               /\ c.after.log = c.before.log
               /\ c.after.encoders = c.before.encoders
               /\ c.after.max_control_code = c.before.max_control_code
               /\ c.after.back_references = c.before.back_references

C14_Witness ==
    \E i \in CallsOf("encode_object"), j \in CallsOf("encode_object") :
        /\ i < j
        /\ Heap[calls[i].arg].type = "P" /\ calls[i].simple_form
        /\ calls[i].after.raised = "ValueError"
        /\ Heap[calls[j].arg].type = "object" /\ calls[j].after.raised = "ValueError"
        /\ calls[j].after.target = <<>>

\* bit_length of a non-negative int
BitsOfByte(b) == CHOOSE k \in 0..8 : b < 2 ^ k /\ (k = 0 \/ b >= 2 ^ (k - 1))

BitLength(val) == IF val = <<>> THEN 0 ELSE 8 * (Len(val) - 1) + BitsOfByte(val[1])

\* The smallest of the widths 1, 2, 4, 8 whose value bits hold val (0: none)
SmallestWidth(val) ==
    IF BitLength(val) <= 7 THEN 1
    ELSE IF BitLength(val) <= 14 THEN 2
    ELSE IF BitLength(val) <= 29 THEN 4
    ELSE IF BitLength(val) <= 60 THEN 8
    ELSE 0

\* The prefix bits 0, 10, 110, 1110 as the value they add to the first byte
PrefixOfWidth(w) == CASE w = 1 -> 0 [] w = 2 -> 128 [] w = 4 -> 192 [] w = 8 -> 224

\* The w-byte big-endian representation of val under its prefix
Framed(val, w) ==
    [k \in 1..w |->
        (IF k <= w - Len(val) THEN 0 ELSE val[k - (w - Len(val))])
        + (IF k = 1 THEN PrefixOfWidth(w) ELSE 0)]

\* C15: for 0 <= n < 2^60 encode_variable_int appends exactly the w-byte
\* big-endian representation of n under the prefix of w, w the smallest
\* of 1, 2, 4, 8 whose 7, 14, 29, 60 value bits hold n; 0x7F -> 7F,
\* 0x80 -> 80 80, 0x4000 -> C0 00 40 00,
\* 0x20000000 -> E0 00 00 00 20 00 00 00.
C15_EncodeVarInt ==
    \A i \in CallsOf("encode_variable_int") :
        LET c == calls[i] IN
        /\ SmallestWidth(c.arg) > 0
           => /\ c.after.raised = ""
              /\ SinkKept(c)
              /\ Len(WrittenBy(c)) = SmallestWidth(c.arg)
              /\ WrittenBy(c) = Framed(c.arg, SmallestWidth(c.arg))
        /\ c.arg = <<127>> => WrittenBy(c) = <<127>>
        /\ c.arg = <<128>> => WrittenBy(c) = <<128, 128>>
        /\ c.arg = <<64, 0>> => WrittenBy(c) = <<192, 0, 64, 0>>
        /\ c.arg = <<32, 0, 0, 0>> => WrittenBy(c) = <<224, 0, 0, 0, 32, 0, 0, 0>>

C15_Witness ==
    /\ Len(calls) = 2
    /\ calls[1].op = "encode_variable_int" /\ calls[1].arg = <<64, 0>>
    /\ calls[2].op = "encode_variable_int"
    /\ calls[2].arg = <<15, 255, 255, 255, 255, 255, 255, 255>>
    /\ enc.target = <<192, 0, 64, 0, 239, 255, 255, 255, 255, 255, 255, 255>>

\* C17: encode_variable_int of a value of 2^60 or more fails with
\* ValueError and leaves the sink as it was.
C17_EncodeVarIntOutOfRange ==
    \A i \in CallsOf("encode_variable_int") :
        LET c == calls[i] IN
        BitLength(c.arg) > 60
        => /\ c.after.raised = "ValueError"
           /\ c.after.target = c.before.target

C17_Witness ==
    /\ Len(calls) = 2
    /\ calls[1].op = "encode_variable_int" /\ calls[1].arg = <<127>>
    /\ calls[2].op = "encode_variable_int"
    /\ calls[2].arg = <<16, 0, 0, 0, 0, 0, 0, 0>>
    /\ enc.raised = "ValueError" /\ enc.target = <<127>>

\* ------------------------------------------------------------------------
\* The schema being built: Schema.add_type with explicit control codes
\* ------------------------------------------------------------------------

\* The control_codes argument: an int, or a tuple of ints
ExplicitCodes == {12, 40, 41}

ControlCodeArgs ==
    [kind : {"int"}, value : ExplicitCodes]
        \cup [kind : {"tuple"},
              value : UNION {[1..k -> ExplicitCodes] : k \in 0..MaxCodes}]

\* elif isinstance(control_codes, int): control_codes = (control_codes,)
AsTuple(control_codes) ==
    IF control_codes.kind = "int" THEN <<control_codes.value>> ELSE control_codes.value

\* The codecs registered by the calls
AddedCodecs == {Codec("Sentinel", "Ellipsis"), Codec("Bool", ""), Codec("String", "")}

\* Variation: a code already defined is bound anew
AddTypeRebinding(s, object_type, encoder, variant_map) ==
    IF Len(variant_map) # Len(variants(encoder))
    THEN [raised |-> "ValueError", schema |-> s]
    ELSE IF Cardinality({vc[2] : vc \in Range(variant_map)}) # Len(variant_map)
    THEN [raised |-> "ValueError", schema |-> s]
    ELSE [raised |-> "",
          schema |->
            [s EXCEPT
               !.decoders = [c \in DOMAIN s.decoders \cup {vc[2] : vc \in Range(variant_map)} |->
                                IF \E i \in DOMAIN variant_map : variant_map[i][2] = c
                                THEN LET i == CHOOSE i \in DOMAIN variant_map :
                                                  variant_map[i][2] = c
                                     IN  [codec |-> encoder, variant |-> variant_map[i][1]]
                                ELSE s.decoders[c]],
               !.encoders = [t \in DOMAIN s.encoders \cup {object_type} |->
                                IF t = object_type
                                THEN [codec |-> encoder, variant_map |-> variant_map]
                                ELSE s.encoders[t]]]]

\* Schema.add_type from the variant map on: the three checks, ending in
\* "ValueError" or in the two tables updated
AddTypeChecked(s, object_type, encoder, variant_map) ==
    IF Len(variant_map) # Len(variants(encoder))
    THEN [raised |-> "ValueError", schema |-> s]
    ELSE IF Cardinality({vc[2] : vc \in Range(variant_map)}) # Len(variant_map)
    THEN [raised |-> "ValueError", schema |-> s]
    ELSE IF \E vc \in Range(variant_map) : vc[2] \in DOMAIN s.decoders
    THEN [raised |-> "ValueError", schema |-> s]
    ELSE [raised |-> "",
          schema |->
            [s EXCEPT
               !.decoders = [c \in DOMAIN s.decoders \cup {vc[2] : vc \in Range(variant_map)} |->
                                IF \E i \in DOMAIN variant_map : variant_map[i][2] = c
                                THEN LET i == CHOOSE i \in DOMAIN variant_map :
                                                  variant_map[i][2] = c
                                     IN  [codec |-> encoder, variant |-> variant_map[i][1]]
                                ELSE s.decoders[c]],
               !.encoders = [t \in DOMAIN s.encoders \cup {object_type} |->
                                IF t = object_type
                                THEN [codec |-> encoder, variant_map |-> variant_map]
                                ELSE s.encoders[t]]]]

\* Schema.add_type(object_type, encoder, control_codes), control_codes given
add_type_explicit(s, object_type, encoder, control_codes) ==
    AddTypeChecked(s, object_type, encoder,
                   ZipVariants(variants(encoder), AsTuple(control_codes)))

InitSchema ==
    /\ phase = "schema"
    /\ enc = NewEncoderContext(TestSchema.encoders, TestSchema.structures_by_type)
    /\ calls = <<>>
    /\ dec = NewDecoderContext(TestSchema.decoders, TestSchema.structures_by_name, <<>>)
    /\ dec_schema = "same"
    /\ yielded = <<>>
    /\ outcome = ""
    /\ app_schema = default_schema
    /\ InitObjects

\* schema.add_type(object_type, encoder, control_codes)
AddType(object_type, encoder, control_codes) ==
    /\ phase = "schema"
    /\ Len(calls) < MaxCalls
    /\ LET r == add_type_explicit(app_schema, object_type, encoder, control_codes) IN
       /\ app_schema' = r.schema
       /\ outcome' = r.raised
       /\ calls' = Append(calls, Called("add_type",
                                        [object_type |-> object_type, encoder |-> encoder,
                                         control_codes |-> control_codes],
                                        FALSE, app_schema, r))
    /\ UNCHANGED <<phase, enc, dec, dec_schema, yielded, dicts, schemas, contexts>>

NextSchema ==
    \E object_type \in {"A", "B"}, encoder \in AddedCodecs, control_codes \in ControlCodeArgs :
        AddType(object_type, encoder, control_codes)

SchemaSpec == InitSchema /\ [][NextSchema]_vars

\* C20: add_type with explicit codes fails whenever the number of codes
\* given differs from the number of variants of the codec, be it fewer or
\* more codes than variants.
C20_CodeCountMustMatch ==
    \A i \in CallsOf("add_type") :
        LET c == calls[i]
            given == IF c.arg.control_codes.kind = "int" THEN 1
                     ELSE Len(c.arg.control_codes.value)
        IN  given # Len(variants(c.arg.encoder)) => c.after.raised = "ValueError"

\* ------------------------------------------------------------------------
\* Schemas by reference: Schema(parent), add_type and define_structure on
\* any of the Schema objects
\* ------------------------------------------------------------------------

\* Variation: the dict is handed on, not copied
Shared(ds, id) == [dicts |-> ds, id |-> id]

\* dict.copy(): a new dict object with the same items
Copied(ds, id) == [dicts |-> Append(ds, ds[id]), id |-> Len(ds) + 1]

\* The four tables of a Schema object, by value
SchemaValue(ds, sch) ==
    [encoders |-> ds[sch.encoders], decoders |-> ds[sch.decoders],
     structures_by_type |-> ds[sch.structures_by_type],
     structures_by_name |-> ds[sch.structures_by_name]]

\* Variation: the child keeps the parent's dicts
SchemaInitSharing(ds, parent) == [dicts |-> ds, schema |-> parent]

\* Schema.__init__(parent)
SchemaInit(ds, parent) ==
    LET c1 == Copied(ds, parent.encoders)
        c2 == Copied(c1.dicts, parent.decoders)
        c3 == Copied(c2.dicts, parent.structures_by_name)
        c4 == Copied(c3.dicts, parent.structures_by_type)
    IN  [dicts |-> c4.dicts, schema |-> SchemaObject(c1.id, c2.id, c3.id, c4.id)]

\* control_codes=None
CodesNone == [kind |-> "none", value |-> <<>>]

CodesInt(value) == [kind |-> "int", value |-> value]

CodesTuple(value) == [kind |-> "tuple", value |-> value]

\* Schema.add_type(object_type, encoder, control_codes) in either form
add_type_call(s, object_type, encoder, control_codes) ==
    IF control_codes.kind = "none"
    THEN [raised |-> "", schema |-> add_type(s, object_type, encoder)]
    ELSE add_type_explicit(s, object_type, encoder, control_codes)

\* The objects as they are
World == [dicts |-> dicts, schemas |-> schemas, contexts |-> contexts]

\* The last call made: on which object, with which arguments, how it
\* ended, the objects before it, and how many calls were made up to it
Applied(op, on, arg, raised, before, step) ==
    [op |-> op, on |-> on, arg |-> arg, raised |-> raised, before |-> before, step |-> step]

Steps == IF calls = <<>> THEN 0 ELSE calls[1].step

InitApp ==
    /\ phase = "application"
    /\ enc = NewEncoderContext(TestSchema.encoders, TestSchema.structures_by_type)
    /\ calls = <<>>
    /\ dec = NewDecoderContext(TestSchema.decoders, TestSchema.structures_by_name, <<>>)
    /\ dec_schema = "same"
    /\ yielded = <<>>
    /\ outcome = ""
    /\ app_schema = TestSchema
    /\ InitObjects

\* Schema(parent)
SchemaFork(k) ==
    /\ phase = "application"
    /\ Len(schemas) < MaxSchemas
    /\ LET r == SchemaInit(dicts, schemas[k]) IN
       /\ dicts' = r.dicts
       /\ schemas' = Append(schemas, r.schema)
    /\ calls' = << Applied("Schema", k, <<>>, "", World, Steps + 1) >>
    /\ UNCHANGED <<phase, enc, dec, dec_schema, yielded, outcome, app_schema, contexts>>

\* schemas[k].add_type(object_type, encoder, control_codes): the dicts of
\* the schema are changed in place, after every test has passed
AddTypeCall(k, object_type, encoder, control_codes) ==
    /\ phase = "application"
    /\ LET r == add_type_call(SchemaValue(dicts, schemas[k]), object_type, encoder,
                              control_codes)
       IN  /\ dicts' = [dicts EXCEPT ![schemas[k].decoders] = r.schema.decoders,
                                     ![schemas[k].encoders] = r.schema.encoders]
           /\ calls' = << Applied("add_type", k,
                                  [object_type |-> object_type, encoder |-> encoder,
                                   control_codes |-> control_codes],
                                  r.raised, World, Steps + 1) >>
    /\ UNCHANGED <<phase, enc, dec, dec_schema, yielded, outcome, app_schema,
                   schemas, contexts>>

\* Variation: the definition is also given a control code in the schema
DefineStructureAllocating(ds, sch, type_def, name) ==
    LET r == define_structure_named(SchemaValue(ds, sch), type_def, name) IN
    IF r.raised # "" THEN [raised |-> r.raised, dicts |-> ds, schema |-> sch]
    ELSE LET a == add_type(r.schema, type_def,
                           Codec("Struct", r.schema.structures_by_type[type_def]))
         IN  [raised |-> "",
              dicts |-> [ds EXCEPT ![sch.encoders] = a.encoders,
                                   ![sch.decoders] = a.decoders]
                        \o << r.schema.structures_by_name, r.schema.structures_by_type >>,
              schema |-> [sch EXCEPT !.structures_by_name = Len(ds) + 1,
                                     !.structures_by_type = Len(ds) + 2]]

\* Variation: the rounds work on the schema's own two record tables, so
\* what the rounds before a failing one stored stays in the schema
DefineStructureInPlace(ds, sch, type_def, name) ==
    LET s == SchemaValue(ds, sch)
        st == DefineRounds([structures_by_type |-> s.structures_by_type,
                            structures_by_name |-> s.structures_by_name,
                            raised |-> ""],
                           s, type_def, name, evaluate_struct_schema(type_def))
    IN  [raised |-> st.raised,
         dicts |-> [ds EXCEPT ![sch.structures_by_name] = st.structures_by_name,
                              ![sch.structures_by_type] = st.structures_by_type],
         schema |-> sch]

\* Schema.define_structure(type_def, name) on the Schema object: the two
\* record tables are worked on as copies and bound to the schema at the
\* end, not at all when the call raises
define_structure_call(ds, sch, type_def, name) ==
    LET r == define_structure_named(SchemaValue(ds, sch), type_def, name) IN
    IF r.raised # "" THEN [raised |-> r.raised, dicts |-> ds, schema |-> sch]
    ELSE [raised |-> "",
          dicts |-> ds \o << r.schema.structures_by_name, r.schema.structures_by_type >>,
          schema |-> [sch EXCEPT !.structures_by_name = Len(ds) + 1,
                                 !.structures_by_type = Len(ds) + 2]]

\* schemas[k].define_structure(type_def, name)
DefineCall(k, type_def, name) ==
    /\ phase = "application"
    /\ LET r == define_structure_call(dicts, schemas[k], type_def, name) IN
       /\ dicts' = r.dicts
       /\ schemas' = [schemas EXCEPT ![k] = r.schema]
       /\ calls' = << Applied("define_structure", k,
                              [type_def |-> type_def, name |-> name],
                              r.raised, World, Steps + 1) >>
    /\ UNCHANGED <<phase, enc, dec, dec_schema, yielded, outcome, app_schema, contexts>>

\* The codec and control_codes arguments of the add_type calls
AddTypeArgs ==
    { <<Codec("Bool", ""), CodesNone>>,
      <<Codec("Bool", ""), CodesTuple(<<40, 41>>)>>,
      <<Codec("Bool", ""), CodesTuple(<<40, 1>>)>>,
      <<Codec("Bool", ""), CodesTuple(<<40, 40>>)>>,
      <<Codec("Bool", ""), CodesTuple(<<40>>)>>,
      <<Codec("Sentinel", "Ellipsis"), CodesInt(40)>>,
      <<Codec("Sentinel", "Ellipsis"), CodesInt(0)>>,
      <<Codec("Sentinel", "Ellipsis"), CodesTuple(<<12>>)>> }

\* The name arguments of the define_structure calls: none, 'P', 'Q', and
\* lambda c: 'Q' if c is P else None
NameArgs ==
    { NoName, StrName(<<80>>), StrName(<<81>>),
      FnName(<< <<ClassObject("P"), <<81>>>> >>) }

NextSchemas ==
    \/ /\ Steps < MaxSchemaCalls
       /\ \E k \in DOMAIN schemas : SchemaFork(k)
    \/ /\ Steps < MaxSchemaCalls
       /\ \E k \in DOMAIN schemas, object_type \in {"A", "bool"}, a \in AddTypeArgs :
             AddTypeCall(k, object_type, a[1], a[2])
    \/ /\ Steps < MaxSchemaCalls
       /\ \E k \in DOMAIN schemas, type_def \in {"P", "L", "P2"}, name \in NameArgs :
             DefineCall(k, type_def, name)

SchemasSpec == InitApp /\ [][NextSchemas]_vars

\* C21: add_type with explicit codes fails when the codes given contain a
\* duplicate, and when one of them is already bound in the decoders table.
C21_DuplicateOrBoundCode ==
    \A i \in CallsOf("add_type") :
        LET c == calls[i]
            given == IF c.arg.control_codes.kind = "int" THEN <<c.arg.control_codes.value>>
                     ELSE c.arg.control_codes.value
        IN  ((\E m \in DOMAIN given, n \in DOMAIN given : m # n /\ given[m] = given[n])
                \/ (\E m \in DOMAIN given : given[m] \in DOMAIN c.before.decoders))
            => c.after.raised = "ValueError"

\* The schemas as they are, by value
SchemaNow(k) == SchemaValue(dicts, schemas[k])

\* The schemas as they were before the last call
SchemaBefore(k) == SchemaValue(calls[1].before.dicts, calls[1].before.schemas[k])

\* The last call was op, on any object
LastCall(op) == calls # <<>> /\ calls[1].op = op

\* C22: in every schema the control codes 0 and 1 are bound to no kind and
\* variant, whatever add_type calls were made, with or without codes.
C22_ReservedCodesUnbound ==
    \A k \in DOMAIN schemas :
        /\ STRUCT_DEF_CONTROL_CODE \notin DOMAIN SchemaNow(k).decoders
        /\ BACK_REF_CONTROL_CODE \notin DOMAIN SchemaNow(k).decoders
        /\ \A t \in DOMAIN SchemaNow(k).encoders :
              \A vc \in Range(SchemaNow(k).encoders[t].variant_map) :
                  vc[2] \notin {STRUCT_DEF_CONTROL_CODE, BACK_REF_CONTROL_CODE}

\* The <<type, variant, code>> triples of the encoders table of a schema
CodeTriples(s) ==
    UNION { {<<t, s.encoders[t].variant_map[i][1], s.encoders[t].variant_map[i][2]>> :
                i \in DOMAIN s.encoders[t].variant_map} : t \in DOMAIN s.encoders }

\* C23: after any calls of Schema(parent) and add_type, failed ones
\* included, the two codec tables of every schema agree: a code that the
\* encoders table gives to variant v of the codec of a type is bound in
\* the decoders table to that codec and v, and no code stands in two
\* variant maps or twice in one.
C23_CodecTablesAgree ==
    \A k \in DOMAIN schemas :
        /\ \A x \in CodeTriples(SchemaNow(k)) :
              /\ x[3] \in DOMAIN SchemaNow(k).decoders
              /\ SchemaNow(k).decoders[x[3]] =
                    [codec |-> SchemaNow(k).encoders[x[1]].codec, variant |-> x[2]]
        /\ \A x \in CodeTriples(SchemaNow(k)), y \in CodeTriples(SchemaNow(k)) :
              x[3] = y[3] => x = y

C23_Witness ==
    /\ LastCall("add_type") /\ calls[1].step = 3 /\ calls[1].on = 3
    /\ calls[1].raised = "ValueError"
    /\ "A" \in DOMAIN SchemaNow(3).encoders
    /\ "A" \notin DOMAIN SchemaNow(2).encoders
    /\ 40 \in DOMAIN SchemaNow(3).decoders

\* The two record tables of a schema hold the same definitions
RecordTablesAgree(s) ==
    /\ \A t \in DOMAIN s.structures_by_type :
          /\ s.structures_by_type[t].struct_name \in DOMAIN s.structures_by_name
          /\ s.structures_by_name[s.structures_by_type[t].struct_name] = s.structures_by_type[t]
    /\ \A n \in DOMAIN s.structures_by_name :
          /\ s.structures_by_name[n].struct_name = n
          /\ s.structures_by_name[n].encode_type \in DOMAIN s.structures_by_type
          /\ s.structures_by_type[s.structures_by_name[n].encode_type] = s.structures_by_name[n]

\* C24: after any define_structure calls, failed ones included, with
\* literal names, naming functions or default names, the two record tables
\* of every schema hold the same definitions, each under its wire name in
\* the one and under its type in the other.
C24_RecordTablesAgree == \A k \in DOMAIN schemas : RecordTablesAgree(SchemaNow(k))

\* The record tables of schema k are what they were before the last call
RecordTablesKept(k) ==
    /\ SchemaNow(k).structures_by_type = SchemaBefore(k).structures_by_type
    /\ SchemaNow(k).structures_by_name = SchemaBefore(k).structures_by_name

\* The wire name a define_structure call asks for a class of its results
AskedName(name, type_def, type_class, before) ==
    IF name.kind = "fn" /\ HasKey(name.value, ClassObject(type_class))
    THEN Lookup(name.value, ClassObject(type_class))
    ELSE IF name.kind = "str" /\ type_class = type_def THEN name.value
    ELSE IF type_class \in DOMAIN before.structures_by_type
    THEN before.structures_by_type[type_class].struct_name
    ELSE ClassName(type_class)

\* C25: define_structure fails only when a wire name it asks for is held
\* by a different type; and a call that asks, for the type and every
\* child type, the name each already has succeeds and leaves the record
\* tables as they were.
C25_RedefinitionIsIdempotent ==
    LastCall("define_structure") =>
        LET c == calls[1]
            before == SchemaBefore(c.on)
            classes == Range(evaluate_struct_schema(c.arg.type_def))
            asked(t) == AskedName(c.arg.name, c.arg.type_def, t, before)
        IN  /\ c.raised # ""
               => \E t \in classes :
                     \/ /\ asked(t) \in DOMAIN before.structures_by_name
                        /\ before.structures_by_name[asked(t)].encode_type # t
                     \/ \E u \in classes : u # t /\ asked(u) = asked(t)
            /\ (\A t \in classes :
                   /\ t \in DOMAIN before.structures_by_type
                   /\ asked(t) = before.structures_by_type[t].struct_name)
               => c.raised = "" /\ RecordTablesKept(c.on)

\* C26: define_structure for an already defined type with a new wire name
\* that no type holds puts the definition under the new name, removes the
\* entry under the old name, and gives the by-type entry the new name.
C26_RenameMovesEntry ==
    LastCall("define_structure") =>
        LET c == calls[1]
            before == SchemaBefore(c.on)
            now == SchemaNow(c.on)
            t == c.arg.type_def
        IN  (/\ c.arg.name.kind = "str"
             /\ t \in DOMAIN before.structures_by_type
             /\ c.arg.name.value # before.structures_by_type[t].struct_name
             /\ c.arg.name.value \notin DOMAIN before.structures_by_name)
            => /\ c.raised = ""
               /\ c.arg.name.value \in DOMAIN now.structures_by_name
               /\ now.structures_by_name[c.arg.name.value] = now.structures_by_type[t]
               /\ now.structures_by_type[t].struct_name = c.arg.name.value
               /\ before.structures_by_type[t].struct_name \notin DOMAIN now.structures_by_name

\* C30: add_type and define_structure on one schema leave the four tables
\* of every other schema as they were, be it the parent the schema was
\* forked from or a child forked from it.
C30_ForkedSchemasIndependent ==
    (LastCall("add_type") \/ LastCall("define_structure")) =>
        \A k \in DOMAIN schemas : k # calls[1].on => SchemaNow(k) = SchemaBefore(k)

C30_Witness ==
    /\ LastCall("add_type") /\ calls[1].raised = ""
    /\ Len(schemas) = 3 /\ calls[1].step = 3
    /\ "P" \in DOMAIN SchemaNow(3).structures_by_type
    /\ calls[1].on = 2
    /\ "A" \in DOMAIN SchemaNow(2).encoders
    /\ "A" \in DOMAIN SchemaNow(3).encoders
    /\ SchemaNow(2).encoders["A"] # SchemaNow(3).encoders["A"]

\* ------------------------------------------------------------------------
\* Contexts built from Schema objects.  A context holds its two tables as
\* dict objects of its own; the rest of it (sink or source, positions,
\* back references) belongs to it alone.
\* ------------------------------------------------------------------------

\* How many contexts are built, and how many calls are made on schemas
\* and contexts
MaxContexts == 2
MaxContextCalls == 4

ContextObject(kind, codecs, structures, state) ==
    [kind |-> kind, codecs |-> codecs, structures |-> structures, state |-> state]

\* Variation: the context keeps the dicts it is given
EncoderContextInitSharing(ds, encoders, structures) ==
    [dicts |-> ds,
     context |-> ContextObject("encoder", encoders, structures,
                               NewEncoderContext(ds[encoders], ds[structures]))]

\* EncoderContext.__init__(encoders, structures, target)
EncoderContextInit(ds, encoders, structures) ==
    LET c1 == Copied(ds, encoders)
        c2 == Copied(c1.dicts, structures)
    IN  [dicts |-> c2.dicts,
         context |-> ContextObject("encoder", c1.id, c2.id,
                                   NewEncoderContext(ds[encoders], ds[structures]))]

\* DecoderContext.__init__(decoders, structures, source)
DecoderContextInit(ds, decoders, structures, source) ==
    LET c1 == Copied(ds, decoders)
        c2 == Copied(c1.dicts, structures)
    IN  [dicts |-> c2.dicts,
         context |-> ContextObject("decoder", c1.id, c2.id,
                                   NewDecoderContext(ds[decoders], ds[structures], source))]

\* Schema.encoder(target)
schema_encoder(ds, sch) == EncoderContextInit(ds, sch.encoders, sch.structures_by_type)

\* Schema.decoder(source)
schema_decoder(ds, sch, source) ==
    LET c == Copied(ds, sch.decoders)
    IN  DecoderContextInit(c.dicts, c.id, sch.structures_by_name, source)

\* The context with the tables its dict objects hold
Materialised(ds, ctx) ==
    IF ctx.kind = "encoder"
    THEN [ctx.state EXCEPT !.encoders = ds[ctx.codecs], !.structures = ds[ctx.structures]]
    ELSE [ctx.state EXCEPT !.decoders = ds[ctx.codecs], !.structures = ds[ctx.structures]]

\* The item assignments a call of the context made to its tables
TablesStored(ds, ctx, state) ==
    [ds EXCEPT ![ctx.codecs] = IF ctx.kind = "encoder" THEN state.encoders
                               ELSE state.decoders,
               ![ctx.structures] = state.structures]

\* A context the application holds, with what is remembered about it:
\* the schema it was built from and that schema's tables at the time, and
\* the arguments of the calls made on it
Held(context, k, built, inputs) ==
    [context |-> context, schema |-> k, built |-> built, inputs |-> inputs]

\* schemas[k].encoder(target)
EncoderBuilt(k) ==
    /\ phase = "application"
    /\ Len(contexts) < MaxContexts
    /\ LET r == schema_encoder(dicts, schemas[k]) IN
       /\ dicts' = r.dicts
       /\ contexts' = Append(contexts,
                             Held(r.context, k, SchemaValue(dicts, schemas[k]), <<>>))
    /\ calls' = << Applied("encoder", k, <<>>, "", World, Steps + 1) >>
    /\ UNCHANGED <<phase, enc, dec, dec_schema, yielded, outcome, app_schema, schemas>>

\* schemas[k].decoder(source)
DecoderBuilt(k, source) ==
    /\ phase = "application"
    /\ Len(contexts) < MaxContexts
    /\ LET r == schema_decoder(dicts, schemas[k], source) IN
       /\ dicts' = r.dicts
       /\ contexts' = Append(contexts,
                             Held(r.context, k, SchemaValue(dicts, schemas[k]), <<>>))
    /\ calls' = << Applied("decoder", k, source, "", World, Steps + 1) >>
    /\ UNCHANGED <<phase, enc, dec, dec_schema, yielded, outcome, app_schema, schemas>>

\* contexts[c](value), an encoder context
ContextEncode(c, o) ==
    /\ phase = "application"
    /\ contexts[c].context.kind = "encoder"
    /\ LET ctx == contexts[c].context
           e1 == encode_object([Materialised(dicts, ctx) EXCEPT !.raised = ""], o, FALSE)
       IN  /\ dicts' = TablesStored(dicts, ctx, e1)
           /\ contexts' = [contexts EXCEPT ![c].context.state = e1,
                                           ![c].inputs = Append(@, o)]
           /\ calls' = << Applied("encode", c, o, e1.raised, World, Steps + 1) >>
    /\ UNCHANGED <<phase, enc, dec, dec_schema, yielded, outcome, app_schema, schemas>>

\* next(contexts[c]), a decoder context
ContextNext(c) ==
    /\ phase = "application"
    /\ contexts[c].context.kind = "decoder"
    /\ LET ctx == contexts[c].context
           d1 == decode_object([Materialised(dicts, ctx) EXCEPT !.raised = "", !.ret = <<>>],
                               TRUE, TRUE)
       IN  /\ dicts' = TablesStored(dicts, ctx, d1)
           /\ contexts' = [contexts EXCEPT ![c].context.state = d1,
                                           ![c].inputs = Append(@, 0)]
           /\ calls' = << Applied("next", c, <<>>, d1.raised, World, Steps + 1) >>
    /\ UNCHANGED <<phase, enc, dec, dec_schema, yielded, outcome, app_schema, schemas>>

\* The objects the contexts are given: 'hi', P(x=127, y='hi'), and the
\* stream a decoder reads: P(x=127, y='hi') with its declaration, then 'hi'
ContextObjects == {12, 18}
ContextSources == { EncodedAlone(18) \o EncodedAlone(12) }

NextContexts ==
    \/ /\ Steps < MaxContextCalls
       /\ \E k \in DOMAIN schemas : EncoderBuilt(k)
    \/ /\ Steps < MaxContextCalls
       /\ \E k \in DOMAIN schemas, source \in ContextSources : DecoderBuilt(k, source)
    \/ /\ Steps < MaxContextCalls
       /\ \E c \in DOMAIN contexts, o \in ContextObjects : ContextEncode(c, o)
    \/ /\ Steps < MaxContextCalls
       /\ \E c \in DOMAIN contexts : ContextNext(c)
    \/ /\ Steps < MaxContextCalls
       /\ \E k \in DOMAIN schemas, object_type \in {"A", "bool"} :
             AddTypeCall(k, object_type, Codec("Sentinel", "Ellipsis"), CodesNone)
    \/ /\ Steps < MaxContextCalls
       /\ \E k \in DOMAIN schemas, type_def \in {"P", "L"} : DefineCall(k, type_def, NoName)

ContextsSpec == InitApp /\ [][NextContexts]_vars

\* The record classes
RecordClasses == {"P", "L", "P2"}

RECURSIVE RecordTypesIn(_)
\* The record classes of an object and of the objects it holds
RecordTypesIn(o) ==
    LET type == Heap[o].type
        val == Heap[o].val
    IN  IF type \in {"list", "tuple"}
        THEN UNION {RecordTypesIn(val[i]) : i \in DOMAIN val}
        ELSE IF type = "dict"
        THEN UNION {RecordTypesIn(val[i][1]) \cup RecordTypesIn(val[i][2]) : i \in DOMAIN val}
        ELSE IF type \in RecordClasses
        THEN {type} \cup UNION {RecordTypesIn(val[i][2]) : i \in DOMAIN val}
        ELSE {}

\* The tables of context c now and before the last call
ContextNow(c) == Materialised(dicts, contexts[c].context)

ContextBefore(c) == Materialised(calls[1].before.dicts, calls[1].before.contexts[c].context)

\* C27: define_structure leaves the encoders and decoders tables of the
\* schema as they were, so no schema ever has a control code for a record
\* class; an encoder context gets the code of a record class in an encode
\* call of a value that is or holds an instance of the class, a successful
\* one gives it the codes of all of them, and no encode call changes a
\* table of a schema.
C27_RecordCodesInContextOnly ==
    /\ \A k \in DOMAIN schemas : DOMAIN SchemaNow(k).encoders \cap RecordClasses = {}
    /\ LastCall("define_structure") =>
          \A k \in DOMAIN schemas :
              /\ SchemaNow(k).encoders = SchemaBefore(k).encoders
              /\ SchemaNow(k).decoders = SchemaBefore(k).decoders
    /\ LastCall("encode") =>
          /\ \A k \in DOMAIN schemas : SchemaNow(k) = SchemaBefore(k)
          /\ (DOMAIN ContextNow(calls[1].on).encoders
                 \ DOMAIN ContextBefore(calls[1].on).encoders)
                \subseteq RecordTypesIn(calls[1].arg)
          /\ calls[1].raised = ""
                => RecordTypesIn(calls[1].arg) \subseteq DOMAIN ContextNow(calls[1].on).encoders
    /\ \A c \in DOMAIN contexts :
          (contexts[c].context.kind = "encoder" /\ ~(LastCall("encode") /\ calls[1].on = c)
              /\ ~LastCall("encoder"))
             => DOMAIN ContextNow(c).encoders = DOMAIN ContextBefore(c).encoders

\* define_structure(P) on the default schema, an encoder of it, and the
\* first P written: the context has a code for P, the schema has none
C27_Witness ==
    /\ LastCall("encode") /\ calls[1].raised = "" /\ calls[1].arg = 18
    /\ contexts[calls[1].on].schema = 1
    /\ "P" \in DOMAIN ContextNow(calls[1].on).encoders
    /\ "P" \notin DOMAIN ContextBefore(calls[1].on).encoders
    /\ "P" \in DOMAIN SchemaNow(1).structures_by_type
    /\ "P" \notin DOMAIN SchemaNow(1).encoders

RECURSIVE EncodedInTurn(_, _, _)
\* The encoder context e after the calls e(inputs[i]), e(inputs[i+1]), ...
EncodedInTurn(e, inputs, i) ==
    IF i > Len(inputs) THEN e
    ELSE EncodedInTurn(encode_object([e EXCEPT !.raised = ""], inputs[i], FALSE),
                       inputs, i + 1)

RECURSIVE DecodedInTurn(_, _)
\* The decoder context d after n calls next(d)
DecodedInTurn(d, n) ==
    IF n = 0 THEN d
    ELSE DecodedInTurn(decode_object([d EXCEPT !.raised = "", !.ret = <<>>], TRUE, TRUE),
                       n - 1)

\* The context a holder would have, had nothing but the calls on the
\* context happened since it was built
RunAlone(held) ==
    IF held.context.kind = "encoder"
    THEN EncodedInTurn(NewEncoderContext(held.built.encoders, held.built.structures_by_type),
                       held.inputs, 1)
    ELSE DecodedInTurn(NewDecoderContext(held.built.decoders, held.built.structures_by_name,
                                         held.context.state.source),
                       Len(held.inputs))

\* C28: an add_type or define_structure call, successful or not, leaves
\* the two tables of every context as they were, and every context, after
\* any calls on schemas and contexts, has the tables, the sink or the
\* position in its source, the back references and the last result that
\* the calls made on it alone give from the schema as it was when the
\* context was built.
C28_ContextKeepsItsTables ==
    /\ (LastCall("add_type") \/ LastCall("define_structure")) =>
          \A c \in DOMAIN contexts :
              /\ dicts[contexts[c].context.codecs]
                    = calls[1].before.dicts[contexts[c].context.codecs]
              /\ dicts[contexts[c].context.structures]
                    = calls[1].before.dicts[contexts[c].context.structures]
    /\ \A c \in DOMAIN contexts : ContextNow(c) = RunAlone(contexts[c])

\* An encoder and a decoder of the application's schema, then add_type on
\* that schema, which takes the code after the last (the code that the
\* declaration in the decoder's source gives to P), then the decoder reads P
C28_Witness ==
    /\ LastCall("next") /\ calls[1].raised = "" /\ calls[1].step = 4
    /\ contexts[calls[1].on].schema = 2
    /\ "A" \in DOMAIN SchemaNow(2).encoders
    /\ "A" \notin DOMAIN contexts[calls[1].on].built.encoders
    /\ Len(contexts) = 2 /\ contexts[1].context.kind = "encoder"
    /\ contexts[1].schema = 2
    /\ "A" \notin DOMAIN ContextNow(1).encoders
    /\ ContextNow(calls[1].on).ret.type = "P"
    /\ SchemaNow(2).decoders # ContextNow(calls[1].on).decoders

\* The declarations and the back references an encoder context wrote
EventsOf(e, ev) == {i \in DOMAIN e.log : e.log[i].ev = ev}

\* C29: of two or more encoder contexts, built from one schema or not and
\* called in any order, each writes to its sink the bytes it writes when
\* called alone with the same values: the first record of a class it
\* writes is preceded by its own declaration of the class, and it refers
\* back only to an object it has written itself.
C29_EncoderContextsIndependent ==
    \A c \in DOMAIN contexts :
        contexts[c].context.kind = "encoder" =>
            LET e == ContextNow(c) IN
            /\ e.target = RunAlone(contexts[c]).target
            /\ \A i \in EventsOf(e, "data") :
                  e.log[i].type \in RecordClasses
                     => \E j \in EventsOf(e, "decl") : j < i /\ e.log[j].type = e.log[i].type
            /\ \A i \in EventsOf(e, "ref") :
                  \E j \in EventsOf(e, "done") : j < i /\ e.log[j].id = e.log[i].id

\* Two encoder contexts of the application's schema: the first writes
\* P(x=127, y='hi'), then the second writes it, each with a declaration
C29_Witness ==
    /\ LastCall("encode") /\ calls[1].raised = "" /\ calls[1].on = 2
    /\ Len(contexts) = 2
    /\ contexts[1].schema = 2 /\ contexts[2].schema = 2
    /\ contexts[1].context.kind = "encoder" /\ contexts[2].context.kind = "encoder"
    /\ contexts[1].inputs = <<18>> /\ contexts[2].inputs = <<18>>
    /\ ContextNow(1).target = EncodedAlone(18)
    /\ ContextNow(2).target = EncodedAlone(18)
    /\ EventsOf(ContextNow(2), "decl") # {}

\* ------------------------------------------------------------------------
\* The bootstrap of schema.py: default_schema = Schema() finds no
\* default_schema yet and starts with four empty dicts, then the module
\* registers the built-in kinds with add_type, no codes given.
\* ------------------------------------------------------------------------

\* How many registrations are followed
MaxBootCalls == 3

\* Some of the module-level registrations
BootRegistrations ==
    { <<"SkipType", Codec("Sentinel", "SKIP")>>,
      <<"bool", Codec("Bool", "")>>,
      <<"int", Codec("Int", "")>>,
      <<"str", Codec("String", "")>>,
      <<"Decimal", Codec("Decimal", "")>> }

\* Schema.__init__ at bootstrap (NameError: default_schema is not bound)
InitBoot ==
    /\ phase = "application"
    /\ enc = NewEncoderContext(TestSchema.encoders, TestSchema.structures_by_type)
    /\ calls = <<>>
    /\ dec = NewDecoderContext(TestSchema.decoders, TestSchema.structures_by_name, <<>>)
    /\ dec_schema = "same"
    /\ yielded = <<>>
    /\ outcome = ""
    /\ app_schema = EmptySchema
    /\ dicts = << EmptyFcn, EmptyFcn, EmptyFcn, EmptyFcn >>
    /\ schemas = << SchemaObject(1, 2, 3, 4) >>
    /\ contexts = <<>>

NextBoot ==
    /\ Steps < MaxBootCalls
    /\ \E reg \in BootRegistrations : AddTypeCall(1, reg[1], reg[2], CodesNone)

BootSpec == InitBoot /\ [][NextBoot]_vars

\* C31: add_type without codes succeeds and gives the variants of the
\* codec, in the order of its variant list, the codes start, start + 1,
\* ..., where start is one more than the largest code bound in the
\* decoders table, or 9 when that table is empty; the decoders table binds
\* each of these codes to the codec and the variant, and keeps its other
\* entries.
C31_AllocatesNextCodes ==
    (LastCall("add_type") /\ calls[1].arg.control_codes.kind = "none") =>
        LET c == calls[1]
            before == SchemaBefore(c.on)
            now == SchemaNow(c.on)
            vs == variants(c.arg.encoder)
            start == IF DOMAIN before.decoders = {} THEN 9
                     ELSE SetMax(DOMAIN before.decoders) + 1
        IN  /\ c.raised = ""
            /\ now.encoders[c.arg.object_type].codec = c.arg.encoder
            /\ now.encoders[c.arg.object_type].variant_map
                  = [i \in 1..Len(vs) |-> <<vs[i], start + i - 1>>]
            /\ DOMAIN now.decoders = DOMAIN before.decoders \cup (start..(start + Len(vs) - 1))
            /\ \A i \in 1..Len(vs) :
                  now.decoders[start + i - 1] = [codec |-> c.arg.encoder, variant |-> vs[i]]
            /\ \A code \in DOMAIN before.decoders : now.decoders[code] = before.decoders[code]

\* bool first, on the empty tables: codes 9 and 10; then int: 11 to 15
C31_Witness ==
    /\ LastCall("add_type") /\ calls[1].step = 2
    /\ calls[1].arg.object_type = "int"
    /\ DOMAIN SchemaBefore(1).decoders = {9, 10}
    /\ SchemaNow(1).encoders["int"].variant_map[5] = <<"...", 15>>
    /\ SchemaNow(1).decoders[11].variant = "1"

\* The variant of the integer codec with the smallest sufficient width
SmallestIntVariant(val) ==
    IF Len(val) <= 1 THEN "1"
    ELSE IF Len(val) = 2 THEN "2"
    ELSE IF Len(val) <= 4 THEN "4"
    ELSE IF Len(val) <= 8 THEN "8"
    ELSE "..."

\* C32: every integer is written under the control code of the smallest
\* of the variants 1, 2, 4, 8 whose width holds it (0 and 127 under the
\* variant 1), under the big variant when it needs more than 8 bytes, and
\* only an integer written under the big variant is remembered for back
\* references.
C32_SmallestIntVariant ==
    \A i \in DOMAIN enc.log :
        enc.log[i].type = "int" =>
            /\ enc.log[i].ev = "data"
                  => enc.log[i].arg = Lookup(enc.encoders["int"].variant_map,
                                             SmallestIntVariant(Heap[enc.log[i].id].val))
            /\ enc.log[i].ev = "done"
                  => SmallestIntVariant(Heap[enc.log[i].id].val) = "..."

\* ------------------------------------------------------------------------
\* DecimalEncoder, encoder side, and Schema.dump_bytes / Schema.load_bytes
\* for decimals
\* ------------------------------------------------------------------------

\* _ENCODE_MAP[c]
ENCODE_MAP(c) == (CHOOSE i \in DOMAIN DECODE_MAP : DECODE_MAP[i] = c) - 1

\* DecimalEncoder.select_variant
DecimalSelectVariant(value) ==
    VariantSpec("_encode", IF value.negative THEN "-1" ELSE "1", FALSE)

\* Variation: the low nibble comes first
EncodeIterLowFirst(string_value, i) ==
    [k \in 1..((Len(string_value) + 1) \div 2) |->
        IF 2 * k > Len(string_value) THEN 15 * 16 + ENCODE_MAP(string_value[2 * k - 1])
        ELSE ENCODE_MAP(string_value[2 * k]) * 16 + ENCODE_MAP(string_value[2 * k - 1])]

RECURSIVE EncodeIter(_, _)
\* _encode_iter(): two characters a byte, the last of an odd number with 0x0F
EncodeIter(string_value, i) ==
    IF i > Len(string_value) THEN <<>>
    ELSE IF i = Len(string_value) THEN << ENCODE_MAP(string_value[i]) * 16 + 15 >>
    ELSE << ENCODE_MAP(string_value[i]) * 16 + ENCODE_MAP(string_value[i + 1]) >>
         \o EncodeIter(string_value, i + 2)

\* DecimalEncoder._encode: the count is written before the bytes are made,
\* a character outside _ENCODE_MAP is a KeyError
DecimalEncode(e, value) ==
    LET e1 == encode_variable_int(e, Digits(Len(value.string_value))) IN
    IF e1.raised # "" THEN e1
    ELSE IF \E i \in DOMAIN value.string_value : value.string_value[i] \notin Range(DECODE_MAP)
    THEN [e1 EXCEPT !.raised = "KeyError"]
    ELSE write(e1, EncodeIter(value.string_value, 1))

\* encode_object for a Decimal: control code of the variant, then _encode
\* (no back reference is kept: allow_backref is False)
EncodeDecimal(e, value) ==
    LET control_code == Lookup(e.encoders["Decimal"].variant_map,
                               DecimalSelectVariant(value).variant_key)
    IN  DecimalEncode(encode_variable_int(e, Digits(control_code)), value)

\* How many dump_bytes and load_bytes calls are followed, and the largest
\* character count of a crafted source
MaxDecimalCalls == 1
MaxDigits == 4

\* The decimals written: 0, 7, 12, 1.5, -1.5, 123, 1.2345, 0.00, and
\* -0 (not below 0, its text keeps the sign) and 1E+10
DecimalValues ==
    { DecimalValue(FALSE, <<48>>), DecimalValue(FALSE, <<55>>),
      DecimalValue(FALSE, <<49, 50>>), DecimalValue(FALSE, <<49, 46, 53>>),
      DecimalValue(TRUE, <<49, 46, 53>>), DecimalValue(FALSE, <<49, 50, 51>>),
      DecimalValue(FALSE, <<49, 46, 50, 51, 52, 53>>),
      DecimalValue(FALSE, <<48, 46, 48, 48>>),
      DecimalValue(FALSE, <<45, 48>>),
      DecimalValue(FALSE, <<49, 69, 43, 49, 48>>) }

\* Payload bytes of the crafted sources: 12, 1F, FF, 1B, A5, F1
DecimalBytes == {18, 31, 255, 27, 165, 241}

DecimalPayloads ==
    {<<>>} \cup {<<a>> : a \in DecimalBytes} \cup {<<a, b>> : a \in DecimalBytes, b \in DecimalBytes}

\* The control code of a decimal variant, a character count, a payload
DecimalSources ==
    { <<Lookup(default_schema.encoders["Decimal"].variant_map, v), n>> \o payload :
        v \in {"1", "-1"}, n \in 0..MaxDigits, payload \in DecimalPayloads }

\* schemas[k].dump_bytes(value) for a Decimal
DumpBytes(k, value) ==
    /\ phase = "application"
    /\ LET e1 == EncodeDecimal(NewEncoderContext(SchemaNow(k).encoders,
                                                 SchemaNow(k).structures_by_type), value)
       IN  /\ enc' = e1
           /\ calls' = << Applied("dump_bytes", k, value, e1.raised, World, Steps + 1) >>
    /\ UNCHANGED <<phase, dec, dec_schema, yielded, outcome, app_schema,
                   dicts, schemas, contexts>>

\* schemas[k].load_bytes(byte_buffer)
LoadBytes(k, byte_buffer) ==
    /\ phase = "application"
    /\ LET d1 == decode_object(NewDecoderContext(SchemaNow(k).decoders,
                                                 SchemaNow(k).structures_by_name,
                                                 byte_buffer), TRUE, TRUE)
           d2 == IF d1.raised = "" /\ d1.pos # Len(byte_buffer)
                 THEN Raise(d1, "ValueError") ELSE d1
       IN  /\ dec' = d2
           /\ calls' = << Applied("load_bytes", k, byte_buffer, d2.raised, World, Steps + 1) >>
    /\ UNCHANGED <<phase, enc, dec_schema, yielded, outcome, app_schema,
                   dicts, schemas, contexts>>

NextDecimal ==
    \/ /\ Steps < MaxDecimalCalls
       /\ \E k \in DOMAIN schemas, value \in DecimalValues : DumpBytes(k, value)
    \/ /\ Steps < MaxDecimalCalls
       /\ \E k \in DOMAIN schemas, byte_buffer \in DecimalSources : LoadBytes(k, byte_buffer)

DecimalSpec == InitApp /\ [][NextDecimal]_vars

\* Character k of a payload of two characters a byte, high nibble first
Nibble(payload, k) ==
    IF k % 2 = 1 THEN payload[(k + 1) \div 2] \div 16 ELSE payload[k \div 2] % 16

\* The bytes dump_bytes wrote after the control code and a one-byte count
PayloadWritten == SubSeq(enc.target, 3, Len(enc.target))

\* The decimal's text has digits and '.' only
PlainText(value) == \A i \in DOMAIN value.string_value : value.string_value[i] \in Range(DECODE_MAP)

SourceCount == calls[1].arg[2]

SourcePayload == SubSeq(calls[1].arg, 3, Len(calls[1].arg))

\* C34: reading a decimal whose payload is all there fails with a parse
\* error when the count is odd and the low nibble of the last byte is not
\* 0x0F, and when a nibble other than that last padding nibble is no
\* character code (11 to 15, a padding nibble before the end included).
C34_DecimalCorruptionRefused ==
    (LastCall("load_bytes") /\ Len(SourcePayload) = (SourceCount + 1) \div 2) =>
        ((\/ SourceCount % 2 = 1 /\ Nibble(SourcePayload, SourceCount + 1) # 15
          \/ \E k \in 1..SourceCount : Nibble(SourcePayload, k) > 10)
            => calls[1].raised \in {"ParseError", "UnexpectedEof", "UnknownControlCode"})

\* The events of one kind in the decoder's log
DecoderEvents(ev) == {j \in DOMAIN dec.log : dec.log[j].ev = ev}

\* C35: when a decoder of the same schema has read all that an encoder
\* context wrote in calls that all returned, it ended normally, and for
\* every value the encoder remembered for back references the decoder
\* remembered, at the same position, the decoded counterpart of the value;
\* that position holds the control code of the value itself, behind any
\* declaration.  Every back reference the encoder wrote was read by the
\* decoder at the same position with the same offset and gave the
\* counterpart of the value referred to.
C35_PositionsAgree ==
    (WholeStream /\ AllEncoded /\ dec_schema = "same" /\ phase = "finished") =>
        /\ outcome = "StopIteration"
        /\ \A i \in LogIndex :
              enc.log[i].ev = "done" =>
                 /\ enc.log[i].pos \in DOMAIN dec.back_references
                 /\ Matches("same", enc.log[i].id, dec.back_references[enc.log[i].pos])
                 /\ dec.back_references[enc.log[i].pos].oid = enc.log[i].pos + 1
                 /\ \E j \in DecoderEvents("done") : dec.log[j].pos = enc.log[i].pos
                 /\ \E k \in 1..(i - 1) :
                       /\ enc.log[k].ev = "data" /\ enc.log[k].id = enc.log[i].id
                       /\ enc.log[k].pos = enc.log[i].pos
                       /\ VarIntAt(enc.log[k].pos, enc.log[k].arg)
                       /\ enc.log[k].arg # STRUCT_DEF_CONTROL_CODE
        /\ \A i \in LogIndex :
              enc.log[i].ev = "ref" =>
                 /\ \E j \in DecoderEvents("ref") :
                       dec.log[j].pos = enc.log[i].pos /\ dec.log[j].arg = enc.log[i].arg
                 /\ (enc.log[i].pos - enc.log[i].arg) \in DOMAIN dec.back_references
                 /\ Matches("same", enc.log[i].id,
                            dec.back_references[enc.log[i].pos - enc.log[i].arg])

\* [P(x=300), P 18, P 18] written first: the declaration of P stands
\* inside the list, the first P 18 behind it, the second is a back
\* reference; then P 18 again, a back reference at top level
C35_Witness ==
    /\ WholeStream /\ AllEncoded /\ dec_schema = "same" /\ phase = "finished"
    /\ Len(calls) = 2 /\ calls[1].id = 21 /\ calls[2].id = 18
    /\ \E i \in LogIndex : enc.log[i].ev = "decl" /\ enc.log[i].pos > 0
    /\ \E i \in LogIndex : enc.log[i].ev = "ref" /\ enc.log[i].id = 18
                              /\ enc.log[i].pos = calls[2].start
    /\ Len(yielded) = 2 /\ yielded[2].type = "P"
    /\ yielded[2].oid = yielded[1].val[2].oid

\* The codes of the encoders table of a context
CodesOf(encoders) ==
    {vc[2] : vc \in UNION {Range(encoders[t].variant_map) : t \in DOMAIN encoders}}

\* The declarations a call wrote, as indexes of the log after it
DeclaredBy(c) ==
    {i \in (Len(c.before.log) + 1)..Len(c.after.log) : c.after.log[i].ev = "decl"}

\* C36: the k-th declaration an encode_object call writes gives the record
\* class one code, the largest code of the context's encoders table before
\* the call plus k: each declared record gets one more than the largest
\* code in the table, so the codes rise by one in the order of declaration
\* and none is the code of a registered variant or of a record declared
\* before.
C36_DeclaredCodesRise ==
    \A n \in CallsOf("encode_object") :
        LET c == calls[n] IN
        \A i \in DeclaredBy(c) :
            LET type == c.after.log[i].type
                k == Cardinality({j \in DeclaredBy(c) : j <= i})
            IN  /\ type \notin DOMAIN c.before.encoders
                /\ Len(c.after.encoders[type].variant_map) = 1
                /\ c.after.encoders[type].variant_map[1][2]
                      = SetMax(CodesOf(c.before.encoders)) + k
                /\ c.after.encoders[type].variant_map[1][2] \notin CodesOf(c.before.encoders)

\* L(a=P 18, b={..}) written first: L is declared, then P inside it
C36_Witness ==
    /\ Len(calls) = 1 /\ calls[1].op = "encode_object" /\ calls[1].arg = 20
    /\ calls[1].after.raised = ""
    /\ Cardinality(DeclaredBy(calls[1])) = 2
    /\ calls[1].after.encoders["P"].variant_map[1][2]
          = calls[1].after.encoders["L"].variant_map[1][2] + 1
    /\ calls[1].after.encoders["L"].variant_map[1][2]
          = SetMax(CodesOf(TestSchema.encoders)) + 1

\* ------------------------------------------------------------------------
\* A caller that changes objects in place between the encode calls on one
\* encoder context; a reader then iterates a decoder of the same schema
\* over all that was written.
\* ------------------------------------------------------------------------

\* 'hi', the list and the record P, each as it was and as it is after
\* list.append('hi') and p.x = 300, and the mapping
ChangingRoots == {12, 16, 26, 17, 18, 27}

NextChanging ==
    \/ \E o \in ChangingRoots : EncoderCall(o)
    \/ SchemaDecoder("same", Len(enc.target))
    \/ DecoderNext

ChangingSpec == Init /\ [][NextChanging]_vars

\* C37: each value the decoder yields equals the value as it was when it
\* was handed to the encoder, also when the caller changed a list or a
\* record in place between two encode calls of it.
C37_YieldsValueAsEncoded ==
    (WholeStream /\ AllEncoded /\ dec_schema = "same") =>
        \A i \in DOMAIN yielded : Matches("same", calls[i].id, yielded[i])

\* ------------------------------------------------------------------------
\* Failing registrations
\* ------------------------------------------------------------------------

\* C38: an add_type or define_structure call that raises leaves the four
\* tables of the schema as they were before the call (and every other
\* object too), also when define_structure raises at a later class after
\* an earlier class of the same call was accepted.
C38_FailedCallChangesNothing ==
    ((LastCall("add_type") \/ LastCall("define_structure")) /\ calls[1].raised # "") =>
        /\ SchemaNow(calls[1].on) = SchemaBefore(calls[1].on)
        /\ dicts = calls[1].before.dicts
        /\ schemas = calls[1].before.schemas

\* define_structure(L, name='P') on a schema that has no record yet: L is
\* accepted under the name 'P', then its field class P, named 'P' by
\* default, is refused
C38_Witness ==
    /\ LastCall("define_structure")
    /\ calls[1].raised # ""
    /\ calls[1].arg.type_def = "L"
    /\ calls[1].arg.name = StrName(<<80>>)
    /\ DOMAIN SchemaBefore(calls[1].on).structures_by_type = {}
    /\ DOMAIN SchemaNow(calls[1].on).structures_by_name = {}

\* ------------------------------------------------------------------------
\* The decoder's loops against the bytes of the source
\* ------------------------------------------------------------------------

\* The entries of the decoder's history written when a control code was read:
\* one for every round of the loop of decode_object, and so at least one
\* for every item, key, value, record field and variant key decoded
CodeRounds == {j \in DOMAIN dec.log : dec.log[j].ev = "code"}

\* The declarations the decoder has completed
DeclRounds == {j \in DOMAIN dec.log : dec.log[j].ev = "decl"}

\* Where the declaration completed at entry j began: at the last control
\* code 0 read before it
DeclStart(j) ==
    dec.log[SetMax({i \in CodeRounds : i < j /\ dec.log[i].arg = STRUCT_DEF_CONTROL_CODE})].pos

\* The field names read by the last declaration, taken from the decoder it
\* registered
LastDeclFields ==
    LET j == SetMax(DeclRounds)
        c == CHOOSE c \in dec.log[j].known : TRUE
    IN  Len(dec.decoders[c].codec.arg.fields)

\* C39: decoding a finite source ends.  The position never passes the end
\* of the source; every call has ended as a value, as the end of the
\* sequence or as an exception; every value returned and every round of
\* the loop of decode_object (hence every item, pair, record field and
\* variant key) has consumed at least one byte, so that the rounds begin
\* at rising positions before the end; and a declaration of v control
\* codes and n field names has consumed at least 4 + 2v + n bytes.
C39_EveryRoundConsumes ==
    /\ dec.pos \in 0..Len(dec.source)
    /\ (phase = "finished") <=> (outcome # "")
    /\ Len(yielded) <= dec.pos
    /\ \A j \in CodeRounds : dec.log[j].pos < Len(dec.source)
    /\ \A i \in CodeRounds, j \in CodeRounds : i < j => dec.log[i].pos < dec.log[j].pos
    /\ \A j \in DeclRounds : dec.log[j].pos >= DeclStart(j) + 4
    /\ (DeclRounds # {} /\ dec.log[SetMax(DeclRounds)].known # {}) =>
          dec.log[SetMax(DeclRounds)].pos >=
              DeclStart(SetMax(DeclRounds)) + 4
                  + 2 * Cardinality(dec.log[SetMax(DeclRounds)].known) + LastDeclFields

\* The source declares Q with one code and the field z, then holds Q(z=7):
\* the decoder read the declaration, the record and its field, and the
\* next call found the end of the source
C39_Witness ==
    /\ phase = "finished" /\ outcome = "StopIteration"
    /\ dec.source = <<0, 1, 81, 1, 40, 10, 1, 1, 122, 40, 14, 7>>
    /\ Len(yielded) = 1
    /\ DeclRounds # {} /\ LastDeclFields = 1
    /\ Cardinality(CodeRounds) = 4
    /\ dec.pos = Len(dec.source)

\* ------------------------------------------------------------------------
\* message_stream.py: the engine once more in a single file.  Its reader
\* calls decode_variable_int of its own DecoderContext on the same sources.
\* ------------------------------------------------------------------------

\* return int.from_bytes(first_byte + self.read(n), ENDIAN)
SingleFileTail(d, first_byte) ==
    IfOk(d, Return(d, Normalise(<<first_byte>> \o d.ret)))

\* The tests on first_byte[0] (they are those of the package)
SingleFileFirst(d) ==
    IfOk(d, IF VarIntRest(d.ret[1]).more = 0 THEN Return(d, Normalise(<<d.ret[1]>>))
            ELSE IF VarIntRest(d.ret[1]).more = Huge THEN Raise(d, "ParseError")
            ELSE SingleFileTail(read(d, VarIntRest(d.ret[1]).more), d.ret[1]))

\* message_stream.DecoderContext.decode_variable_int; returns the integer
\* as digits
single_file_decode_variable_int(d) == SingleFileFirst(read(d, 1))

\* The call by the reader; what it returned is kept with the positions
\* before and after the call
SingleFileDecodeVariableInt ==
    /\ phase = "decoding"
    /\ LET d1 == single_file_decode_variable_int(dec) IN
       /\ dec' = Return(d1, <<>>)
       /\ IF d1.raised = ""
          THEN /\ yielded' = Append(yielded, [type |-> "varint", val |-> d1.ret, oid |-> 0,
                                              from |-> dec.pos, to |-> d1.pos])
               /\ UNCHANGED <<phase, outcome>>
          ELSE /\ outcome' = d1.raised
               /\ phase' = "finished"
               /\ UNCHANGED yielded
    /\ UNCHANGED <<enc, calls, dec_schema, app_schema, dicts, schemas, contexts>>

NextSingleFile == SingleFileDecodeVariableInt

SingleFileSpec == InitDecoder /\ [][NextSingleFile]_vars

\* The package's decode_variable_int on the same source from position from
PackageVarInt(from) ==
    decode_variable_int([NewDecoderContext(dec.decoders, dec.structures, dec.source)
                            EXCEPT !.pos = from])

\* C40: decode_variable_int of the single file returns, for every source,
\* the value the package's decode_variable_int returns (the prefix bits
\* masked off) and consumes the same number of bytes, so that what
\* encode_variable_int wrote in 2, 4 or 8 bytes is read back unchanged.
C40_SingleFileDecodesAlike ==
    \A i \in DOMAIN yielded :
        /\ PackageVarInt(yielded[i].from).raised = ""
        /\ PackageVarInt(yielded[i].from).pos = yielded[i].to
        /\ PackageVarInt(yielded[i].from).ret = yielded[i].val

====
